---- MODULE Spec2Model ----
(***************************************************************************)
(* A model of minusql (src/index.js): the escaper, the expression and      *)
(* statement compiler (QueryParts, Builder), the lazily executed Query,    *)
(* SQL.exec and SQL.begin.                                                 *)
(*                                                                         *)
(* SQL text is a TLA+ string, built with \o exactly where the source uses  *)
(* + and template strings.  A JavaScript value is a record tagged by its   *)
(* field k: "null", "undef", "bool", "num", "str", "sym" (a Symbol),       *)
(* "var" (an object with a $ field), "arr" (an array), "obj" (a plain      *)
(* object, keys in insertion order), "re" (a RegExp), "date".              *)
(***************************************************************************)
EXTENDS Integers, Sequences, FiniteSets, TLC

VARIABLES
    flavor,       \* $config.flavor of the SQL instance: "mysql" or "postgres"
    convertCase,  \* $config.convertCase
    op,           \* the operation the last step applied
    input,        \* the argument of that operation
    output,       \* what it returned
    pc,           \* where begin(callback) stands
    dbLog,        \* every call the collaborators received, in order
    calls,        \* the promises of the exec calls made so far
    tx,           \* begin's connection and the failure it is handling
    released,     \* how many times the connection was released
    outcome       \* the promise that begin returned

vars == <<flavor, convertCase, op, input, output, pc, dbLog, calls, tx, released, outcome>>

\* the configuration, and the state of execution
config == <<flavor, convertCase>>

runtime == <<pc, dbLog, calls, tx, released, outcome>>

Flavors == {"mysql", "postgres"}

(***************************************************************************)
(* Strings, character by character.                                        *)
(***************************************************************************)
Char(s, i) == SubSeq(s, i, i)

Chars(s) == {Char(s, i) : i \in 1..Len(s)}

IndexOf(c, s) == IF c \in Chars(s) THEN CHOOSE i \in 1..Len(s) : Char(s, i) = c ELSE 0

\* s with every character c replaced by m[c]
MapChars(s, m) ==
    LET f[i \in 0..Len(s)] == IF i = 0 THEN "" ELSE f[i - 1] \o m[Char(s, i)]
    IN  f[Len(s)]

\* String.prototype.replace(/c/g, by) for a one-character pattern c
ReplaceAll(s, c, by) == MapChars(s, [x \in Chars(s) |-> IF x = c THEN by ELSE x])

StartsWith(s, p) == Len(s) >= Len(p) /\ SubSeq(s, 1, Len(p)) = p

EndsWith(s, p) == Len(s) >= Len(p) /\ SubSeq(s, Len(s) - Len(p) + 1, Len(s)) = p

Digits == "0123456789"

IsDigit(c) == IndexOf(c, Digits) > 0

LowerChars == "abcdefghijklmnopqrstuvwxyz"

UpperChars == "ABCDEFGHIJKLMNOPQRSTUVWXYZ"

IsLower(c) == c \in Chars(LowerChars)

IsUpper(c) == c \in Chars(UpperChars)

IsLetter(c) == IsLower(c) \/ IsUpper(c)

ToLowerChar(c) == IF IsUpper(c) THEN Char(LowerChars, IndexOf(c, UpperChars)) ELSE c

ToUpperChar(c) == IF IsLower(c) THEN Char(UpperChars, IndexOf(c, LowerChars)) ELSE c

\* a variant of toLowerCase that leaves the string as it is
toLowerCase_AsWritten(s) == s

toLowerCase(s) == MapChars(s, [c \in Chars(s) |-> ToLowerChar(c)])

toUpperCase(s) == MapChars(s, [c \in Chars(s) |-> ToUpperChar(c)])

\* s cut at every c
Split(s, c) ==
    LET f[i \in 0..Len(s)] ==
            IF i = 0 THEN <<"">>
            ELSE IF Char(s, i) = c THEN Append(f[i - 1], "")
            ELSE [f[i - 1] EXCEPT ![Len(f[i - 1])] = @ \o Char(s, i)]
    IN  f[Len(s)]

Join(parts, c) ==
    LET f[i \in 0..Len(parts)] ==
            IF i = 0 THEN "" ELSE f[i - 1] \o (IF i > 1 THEN c ELSE "") \o parts[i]
    IN  f[Len(parts)]

Count(s, c) == Cardinality({i \in 1..Len(s) : Char(s, i) = c})

(***************************************************************************)
(* The escaper.                                                            *)
(***************************************************************************)
\* The grave accent U+0060, the identifier quote of MySQL, cannot be written in
\* a TLA+ string; the model writes it as this character, which occurs nowhere
\* else in the model's texts and inputs.
BQ == ";"

\* /(([a-z])(?=[A-Z]([a-zA-Z]|$))|([A-Z])(?=[A-Z][a-z]))/g replaced by '$1_',
\* then lower-cased; a falsy k (the empty string) is returned as it is
toSnakeCase(k) ==
    LET At(i) == IF i <= Len(k) THEN Char(k, i) ELSE ""
        Hit(i) == \/ /\ IsLower(At(i))
                     /\ IsUpper(At(i + 1))
                     /\ (IsLetter(At(i + 2)) \/ i + 1 = Len(k))
                  \/ /\ IsUpper(At(i))
                     /\ IsUpper(At(i + 1))
                     /\ IsLower(At(i + 2))
        f[i \in 0..Len(k)] ==
            IF i = 0 THEN "" ELSE f[i - 1] \o At(i) \o (IF Hit(i) THEN "_" ELSE "")
    IN  IF k = "" THEN k ELSE toLowerCase(f[Len(k)])

escapeMysqlIdent_NoDoubling(val) == BQ \o ReplaceAll(val, ".", BQ \o "." \o BQ) \o BQ

escapeMysqlIdent(val) ==
    BQ \o ReplaceAll(ReplaceAll(val, BQ, BQ \o BQ), ".", BQ \o "." \o BQ) \o BQ

escapePostgresIdent(val) ==
    "\"" \o ReplaceAll(ReplaceAll(val, "\"", "\"\""), ".", "\".\"") \o "\""

\* CHARS_ESCAPE_MAP, for the characters TLA+ can write in a string (the map
\* also sends NUL, backspace and SUB to \0, \b and \Z)
CHARS_ESCAPE_MAP(c) ==
    CASE c = "\t" -> "\\t"
      [] c = "\n" -> "\\n"
      [] c = "\r" -> "\\r"
      [] c = "\"" -> "\\\""
      [] c = "'"  -> "\\'"
      [] c = "\\" -> "\\\\"
      [] OTHER    -> c

\* the loop over CHARS_GLOBAL_REGEXP: every match is replaced by its image
escapeMysqlString(val) ==
    "'" \o MapChars(val, [c \in Chars(val) |-> CHARS_ESCAPE_MAP(c)]) \o "'"

escapePostgresString_NoQuoteDoubling(val) ==
    IF "\\" \in Chars(val) THEN "E'" \o ReplaceAll(val, "\\", "\\\\") \o "'"
    ELSE "'" \o val \o "'"

escapePostgresString(val) ==
    LET hasBackslash == "\\" \in Chars(val)
        quoted == "'" \o MapChars(val, [c \in Chars(val) |->
                          IF c \in {"'", "\\"} THEN c \o c ELSE c]) \o "'"
    IN  IF hasBackslash THEN "E" \o quoted ELSE quoted

isMySQL(f) == f = "mysql"

isPostgres(f) == f = "postgres"

\* QueryParts.ident and Builder.ident
ident(f, cc, name) ==
    IF name = "*" THEN "*"
    ELSE LET n == IF cc THEN toSnakeCase(name) ELSE name
         IN  IF isMySQL(f) THEN escapeMysqlIdent(n) ELSE escapePostgresIdent(n)

(***************************************************************************)
(* JavaScript values.                                                      *)
(***************************************************************************)
Null == [k |-> "null"]

Undefined == [k |-> "undef"]

Bool(b) == [k |-> "bool", v |-> b]

Num(n) == [k |-> "num", v |-> n]

Str(s) == [k |-> "str", v |-> s]

\* Symbol(description)
Sym(s) == [k |-> "sym", v |-> s]

\* {$: v} and {$: v, type: t}; type "" is an absent type
Var(v) == [k |-> "var", v |-> v, type |-> ""]

TypedVar(v, t) == [k |-> "var", v |-> v, type |-> t]

Arr(a) == [k |-> "arr", v |-> a]

\* a plain object: its own keys in insertion order, and their values
Obj(keys, vals) == [k |-> "obj", keys |-> keys, vals |-> vals]

RegExp(source, flags) == [k |-> "re", source |-> source, flags |-> flags]

\* e[key] of a plain object
Get(o, key) ==
    IF \E i \in 1..Len(o.keys) : o.keys[i] = key
    THEN o.vals[CHOOSE i \in 1..Len(o.keys) : o.keys[i] = key]
    ELSE Undefined

\* typeof v
JsTypeof(v) ==
    CASE v.k = "str"   -> "string"
      [] v.k = "num"   -> "number"
      [] v.k = "bool"  -> "boolean"
      [] v.k = "undef" -> "undefined"
      [] v.k = "sym"   -> "symbol"
      [] OTHER         -> "object"

\* String(v) for a primitive
JsString(v) ==
    CASE v.k = "str"   -> v.v
      [] v.k = "num"   -> ToString(v.v)
      [] v.k = "bool"  -> IF v.v THEN "true" ELSE "false"
      [] v.k = "null"  -> "null"
      [] v.k = "undef" -> "undefined"
      [] OTHER         -> "[object Object]"

isVar(v) == v.k = "var"

\* the truth value of v in a condition
Truthy(v) ==
    CASE v.k \in {"null", "undef"} -> FALSE
      [] v.k = "bool" -> v.v
      [] v.k = "num"  -> v.v # 0
      [] v.k = "str"  -> v.v # ""
      [] OTHER        -> TRUE

\* a[i - 1] of an array, undefined past its end
At(a, i) == IF a.k = "arr" /\ i <= Len(a.v) THEN a.v[i] ELSE Undefined

\* Array.prototype.toString of an array of primitives: String(el) joined by ","
\* a variant of ArrayToString that leaves the commas out
ArrayToString_NoSeparator(a) ==
    LET f[i \in 0..Len(a.v)] == IF i = 0 THEN "" ELSE f[i - 1] \o JsString(a.v[i])
    IN  f[Len(a.v)]

ArrayToString(a) ==
    LET f[i \in 0..Len(a.v)] ==
            IF i = 0 THEN ""
            ELSE f[i - 1] \o (IF i > 1 THEN "," ELSE "") \o JsString(a.v[i])
    IN  f[Len(a.v)]

\* a caller's function, known by its name
Fn(name) == [k |-> "fn", name |-> name]

\* a generator that yields the elements of rows, and a function returning one
Gen(rows) == [k |-> "gen", v |-> rows]

GenFn(rows) == [k |-> "genfn", v |-> rows]

\* the functions the model's callers pass as transforms; args[1] is the value
ApplyFn(f, args) ==
    CASE f.name = "wrap"    -> Var(args[1])                        \* v => ({$: v})
      [] f.name = "plusOne" -> Arr(<<Str("+"), Var(args[1]), Num(1)>>) \* v => ['+', {$: v}, 1]
      [] f.name = "where"   -> Obj(<<"x">>, <<Var(args[1])>>)      \* v => ({x: {$: v}})
      [] OTHER              -> args[1]                             \* v => v

\* a promise: pending, or settled with a value
Pending == [state |-> "pending", value |-> Undefined]

Fulfilled(v) == [state |-> "fulfilled", value |-> v]

Rejected(e) == [state |-> "rejected", value |-> e]

\* new Query(parts, options): text and params are read from parts
Query(parts, options) == [k |-> "query", parts |-> parts, options |-> options]

MaybeUnaryOperators ==
    {"-", "~", "#", "@@", "@-@", "?-", "!!", ":", "|/", "||/", "@", "%"}

BinaryOperators ==
    {"=", "!=", "<>", ">", ">=", "<", "<=",
     ">>", "<<", "%", "MOD", "DIV",
     "LIKE", "NOT LIKE", "ILIKE", "NOT ILIKE", "SIMILAR TO", "NOT SIMILAR TO",
     "REGEXP", "RLIKE", "NOT REGEXP", "NOT RLIKE", "SOUNDS LIKE",
     "~~", "!~~", "~", "~*", "!~", "!~*",
     "->", "->>", "#>", "#>>", "@>", "<@", "?", "?|", "?&", "#-",
     "@@", "&&", "<->",
     "#", "@-@", "##", "<^", ">^", "?#", "?-", "?-|", "?||",
     "&&&", "&<", "&<|", "&>", "<<|", "@", "|&>", "|>>", "~=", "|=|", "<#>", "<<->>",
     "<%", "%>", "<<%", "%>>", "<<->", "<->>", "<<<->", "<->>>",
     "AT TIME ZONE", "OVERLAPS", ">>=", "<<=", "!!=", "-|-"}

Operators ==
    BinaryOperators \cup {"+", "-", "*", "/", "&", "|", "^", "AND", "OR", "XOR", "||"}

(***************************************************************************)
(* QueryParts: the statement buffer.  err is the exception that ended the  *)
(* compilation, if one was thrown; a buffer with an exception is dead and  *)
(* every later operation leaves it as it is.                               *)
(***************************************************************************)
NoErr == [kind |-> "none"]

Error(message) == [kind |-> "Error", message |-> message]

TypeError(message) == [kind |-> "TypeError", message |-> message]

ReferenceError(message) == [kind |-> "ReferenceError", message |-> message]

\* new QueryParts(sql, chunks, params) for an array of chunks
QueryParts(sql, chunks, params) ==
    [sql |-> sql, chunks |-> chunks, params |-> params, err |-> NoErr]

Ok(p) == p.err.kind = "none"

throw(p, e) == IF Ok(p) THEN [p EXCEPT !.err = e] ELSE p

toString(p) ==
    LET f[i \in 1..Len(p.chunks)] ==
            IF i = 1 THEN p.chunks[1]
            ELSE f[i - 1]
                 \o (IF isPostgres(p.sql.flavor) THEN "$" \o ToString(i - 1) ELSE "?")
                 \o p.chunks[i]
    IN  f[Len(p.chunks)]

\* a variant of append without the empty chunk after a last parameter
append_NoClosingChunk(p, args) ==
    IF ~Ok(p) THEN p
    ELSE LET f[i \in 1..Len(args)] ==
                 IF i = 1 THEN [p EXCEPT !.chunks[Len(p.chunks)] = @ \o args[1]]
                 ELSE IF i % 2 = 0 THEN [f[i - 1] EXCEPT !.params = Append(@, args[i])]
                 ELSE [f[i - 1] EXCEPT !.chunks = Append(@, args[i])]
         IN  f[Len(args)]

\* append(string, value, string, ...): args[1] joins the last chunk, then the
\* arguments are pushed in turn on the parameters and on the chunks
append(p, args) ==
    IF ~Ok(p) THEN p
    ELSE LET f[i \in 1..Len(args)] ==
                 IF i = 1 THEN [p EXCEPT !.chunks[Len(p.chunks)] = @ \o args[1]]
                 ELSE IF i % 2 = 0 THEN [f[i - 1] EXCEPT !.params = Append(@, args[i])]
                 ELSE [f[i - 1] EXCEPT !.chunks = Append(@, args[i])]
             r == f[Len(args)]
         IN  IF Len(args) % 2 = 0 THEN [r EXCEPT !.chunks = Append(@, "")] ELSE r

identOf(p, name) == ident(p.sql.flavor, p.sql.convertCase, name)

\* /^[A-Za-z ]+/.test(name)
keywordOk(name) == Len(name) > 0 /\ (IsLetter(Char(name, 1)) \/ Char(name, 1) = " ")

keywordError(name) == Error("Keyword expected here, got \"" \o name \o "\" instead")

\* what keyword(name) throws for value v, NoErr when it returns v: the test
\* converts v to a string, which a Symbol refuses
keywordCheck(v) ==
    IF v.k = "sym" THEN TypeError("Cannot convert a Symbol value to a string")
    ELSE IF ~keywordOk(JsString(v)) THEN keywordError(JsString(v))
    ELSE NoErr

\* the arity message without the supplied count
arityError_NoSupplied(fn, n, m) ==
    Error("\"" \o fn \o "\" requires exactly " \o ToString(n) \o " operands")

\* "fn" requires exactly n operands (m supplied)
arityError(fn, n, m) ==
    Error("\"" \o fn \o "\" requires exactly " \o ToString(n) \o " operands ("
          \o ToString(m) \o " supplied)")

\* s with every occurrence of pat replaced by by, scanning from the left
ReplaceSub(s, pat, by) ==
    LET n == Len(pat)
        \* f[i]: the result for the suffix of s that starts at i
        f[i \in 1..(Len(s) + 1)] ==
            IF i > Len(s) THEN ""
            ELSE IF i + n - 1 <= Len(s) /\ SubSeq(s, i, i + n - 1) = pat
                 THEN by \o f[i + n]
                 ELSE Char(s, i) \o f[i + 1]
    IN  f[1]

Contains(s, pat) ==
    \E i \in 1..Len(s) : i + Len(pat) - 1 <= Len(s) /\ SubSeq(s, i, i + Len(pat) - 1) = pat

\* the pattern with a % at every end that has no anchor
likePattern_DoublesWildcard(source) ==
    LET unanchored(s) == IF EndsWith(s, "$") THEN SubSeq(s, 1, Len(s) - 1) ELSE s
        opened(s) == IF ~StartsWith(source, "^") THEN "%" \o s ELSE s
        closed(s) == IF ~EndsWith(source, "$") THEN s \o "%" ELSE s
    IN  closed(opened(ReplaceSub(ReplaceSub(ReplaceSub(ReplaceSub(
            unanchored(IF StartsWith(source, "^") THEN SubSeq(source, 2, Len(source)) ELSE source),
            "%", "\\%"), "_", "\\_"), ".*", "%"), ".", "_")))

\* the translation of a RegExp source to a LIKE pattern
likePattern(source) ==
    LET unanchored(s) ==
            IF EndsWith(s, "$") THEN SubSeq(s, 1, Len(s) - 1) ELSE s
        opened(s) ==
            IF ~StartsWith(source, "^") /\ ~StartsWith(s, "%") THEN "%" \o s ELSE s
        closed(s) ==
            IF ~EndsWith(source, "$") /\ (~EndsWith(s, "%") \/ EndsWith(s, "\\%"))
            THEN s \o "%" ELSE s
    IN  closed(opened(
            ReplaceSub(ReplaceSub(ReplaceSub(ReplaceSub(
                unanchored(IF StartsWith(source, "^") THEN SubSeq(source, 2, Len(source))
                           ELSE source),
                "%", "\\%"), "_", "\\_"), ".*", "%"), ".", "_")))

isComplex(source, pattern) ==
    \/ \E c \in {"^", "$", "(", ")", "[", "]", "{", "}", "?", "+", "*", "|"} :
           c \in Chars(pattern)
    \/ \E c \in {"d", "D", "s", "S", "w", "W", "b", "B"} : Contains(source, "\\" \o c)
    \/ \E c \in {"=", "!", ":"} : Contains(source, "(?" \o c)

\* regexp(re, forceRegExp): how the match is written.  mode is "like", "ilike",
\* "lowerlike" (LOWER(col) LIKE lowercased pattern), "~", "~*" or "regexp"
regexp(sql, re, forceRegExp) ==
    LET isCaseSensitive == ~("i" \in Chars(re.flags))
        written(pattern) ==
            IF ~forceRegExp /\ ~isComplex(re.source, pattern)
            THEN [pattern |-> pattern,
                  mode |-> IF isCaseSensitive THEN "like"
                           ELSE IF isPostgres(sql.flavor) THEN "ilike" ELSE "lowerlike",
                  tail |-> ""]
            ELSE IF isPostgres(sql.flavor)
            THEN [pattern |-> ReplaceSub(re.source, "\\b", "\\y"),
                  mode |-> IF isCaseSensitive THEN "~" ELSE "~*",
                  tail |-> ""]
            ELSE [pattern |-> re.source,
                  mode |-> "regexp",
                  tail |-> IF isCaseSensitive THEN "" ELSE " COLLATE utf8_general_ci"]
    IN  written(likePattern(re.source))

\* the source text of the arrow function that expr passes to append in its
\* CASE branch (String(fn)), cut to its first line
CaseCallbackSource == "(cond, i) => {"

\* Every method of the buffer that compiles nested input is reached through
\* call, the one recursive definition: call(p, "expr", <<e>>) is this.expr(e)
\* on buffer p.
RECURSIVE call(_, _, _)

this_expr(p, e) == call(p, "expr", <<e>>)

this_value(p, val, inVar) == call(p, "value", <<val, inVar>>)

\* append(array, fn, separator) with the separator before the first element too
appendArray_LeadingSeparator(p, arr, cb, env, sep) ==
    LET f[i \in 0..Len(arr)] ==
            IF i = 0 THEN p
            ELSE call(IF sep # "" THEN append(f[i - 1], <<sep>>) ELSE f[i - 1],
                      "callback", <<cb, env, arr[i], i>>)
    IN  f[Len(arr)]

\* append(array, fn, separator): the separator joins the last chunk before
\* every element but the first, then fn compiles the element
\* (the buffer after element i - 1 is computed before element i is compiled:
\* q ranges over the one-element set that holds it)
appendArray(p, arr, cb, env, sep) ==
    LET f[i \in 0..Len(arr)] ==
            IF i = 0 THEN p
            ELSE CHOOSE r \in {call(IF i > 1 /\ sep # "" THEN append(q, <<sep>>) ELSE q,
                                    "callback", <<cb, env, arr[i], i>>) : q \in {f[i - 1]}} : TRUE
    IN  f[Len(arr)]


\* regexp(re).append(lhs, inVar)
regexpAppend(p, re, lhs, inVar) ==
    LET written(r, col) ==
            CASE r.mode = "like" ->
                   this_value(append(p, <<col \o " LIKE ">>), Str(r.pattern), inVar)
              [] r.mode = "ilike" ->
                   this_value(append(p, <<col \o " ILIKE ">>), Str(r.pattern), inVar)
              [] r.mode = "lowerlike" ->
                   this_value(append(p, <<"LOWER(" \o col \o ") LIKE ">>),
                              Str(toLowerCase(r.pattern)), inVar)
              [] r.mode = "regexp" ->
                   append(this_value(append(p, <<col \o " REGEXP ">>), Str(r.pattern), inVar),
                          <<r.tail>>)
              [] OTHER ->
                   this_value(append(p, <<col \o " " \o r.mode \o " ">>), Str(r.pattern), inVar)
    IN  written(regexp(p.sql, re, FALSE), identOf(p, lhs))

value(p, val, inVar) ==
    LET escaped(s) ==
            IF isPostgres(p.sql.flavor) THEN escapePostgresString(s) ELSE escapeMysqlString(s)
        \* v0 is what the variable holds, v is v0 with a RegExp turned into its pattern
        variable(v0, t, v) ==
            IF v0.k = "arr" THEN appendArray(p, v0.v, "valueInVar", Null, ",")
            ELSE IF val.k \in {"null", "undef"}
            THEN throw(p, TypeError("Cannot read properties of " \o JsString(val)))
            ELSE IF val.k = "var" /\ val.type = "unixtime"
            THEN append(p, <<IF isPostgres(p.sql.flavor) THEN "TO_TIMESTAMP(" ELSE "FROM_UNIXTIME(",
                             CASE v.k = "date" -> Num(v.ms \div 1000)
                               [] v.k = "str" /\ toUpperCase(v.v) = "NOW" -> [k |-> "now"]
                               [] OTHER -> v,
                             ")">>)
            ELSE IF t # ""
            THEN IF isPostgres(p.sql.flavor) THEN append(p, <<"", v, "::" \o t>>)
                 ELSE append(p, <<"CAST(", v, " AS " \o t \o ")">>)
            ELSE append(p, <<"", v>>)
        held(v0, t) ==
            variable(v0, t, IF v0.k = "re" THEN Str(regexp(p.sql, v0, TRUE).pattern) ELSE v0)
    IN  IF ~Ok(p) THEN p
        ELSE IF isVar(val) \/ inVar
        THEN held(IF inVar THEN val ELSE val.v, IF inVar THEN "" ELSE val.type)
        ELSE CASE val.k \in {"null", "undef"} -> append(p, <<"NULL">>)
               [] val.k = "sym"  -> append(p, <<identOf(p, val.v)>>)
               [] val.k = "bool" ->
                    append(p, <<IF isPostgres(p.sql.flavor) THEN (IF val.v THEN "'t'" ELSE "'f'")
                                ELSE (IF val.v THEN "true" ELSE "false")>>)
               [] val.k = "num"  -> append(p, <<ToString(val.v)>>)
               [] val.k = "str"  -> append(p, <<escaped(val.v)>>)
               [] val.k = "re"   -> append(p, <<escaped(regexp(p.sql, val, TRUE).pattern)>>)
               [] OTHER -> throw(p, Error("Unsupported type: " \o JsTypeof(val)))

expr(p, e) ==
    IF ~Ok(p) THEN p
    ELSE IF e.k = "arr"
    THEN IF Len(e.v) = 0 \/ e.v[1].k # "str"
         THEN IF Len(e.v) > 0 /\ e.v[1].k = "sym"
              \* the template literal of the message cannot hold a Symbol
              THEN throw(p, TypeError("Cannot convert a Symbol value to a string"))
              ELSE throw(p, Error("First element of array-style expression must a function/operator name, got \""
                                  \o (IF Len(e.v) = 0 THEN "undefined" ELSE JsString(e.v[1]))
                                  \o "\" instead"))
         ELSE
         LET form(fn, a, n) ==
             LET checkArity(m, q) == IF n # m THEN throw(p, arityError(fn, m, n)) ELSE q
                 kw == JsString(a[2])
             IN
             IF fn \in MaybeUnaryOperators /\ n = 1
             THEN this_expr(append(p, <<fn \o " ">>), a[1])
             ELSE IF fn \in Operators
             THEN IF fn \in BinaryOperators /\ n # 2 THEN throw(p, arityError(fn, 2, n))
                  ELSE append(appendArray(append(p, <<"(">>), a, "expr", Null,
                                          " " \o fn \o " "),
                              <<")">>)
             ELSE CASE fn \in {"IN", "NOTIN", "NOT IN"} ->
                       checkArity(2,
                           LET q == append(this_expr(p, a[1]),
                                           <<IF fn = "IN" THEN " IN (" ELSE " NOT IN (">>)
                           IN  IF isVar(a[2]) THEN append(this_value(q, a[2], FALSE), <<")">>)
                               ELSE IF a[2].k # "arr"
                               THEN throw(q, Error("\"" \o fn \o "\" should take array as its second argument, "
                                                   \o JsTypeof(a[2]) \o " supplied"))
                               ELSE append(appendArray(q, a[2].v, "expr", Null, ","), <<")">>))
                    [] fn \in {"IS NULL", "IS NOT NULL"} ->
                       checkArity(1, append(this_expr(p, a[1]), <<" " \o fn \o " ">>))
                    [] fn = "NOT" ->
                       checkArity(1, this_expr(append(p, <<" " \o fn \o " ">>), a[1]))
                    [] fn \in {"BETWEEN", "NOT BETWEEN"} ->
                       checkArity(3,
                           this_expr(append(this_expr(append(this_expr(p, a[1]), <<" " \o fn \o " ">>), a[2]),
                                       <<" AND ">>), a[3]))
                    [] fn = "TYPE" ->
                       checkArity(2,
                           IF keywordCheck(a[2]) # NoErr THEN throw(p, keywordCheck(a[2]))
                           ELSE this_expr(append(p, <<kw \o " ">>), a[1]))
                    [] fn = "CAST" ->
                       checkArity(2,
                           IF isPostgres(p.sql.flavor)
                           THEN LET q == this_expr(p, a[1])
                                IN  IF keywordCheck(a[2]) # NoErr THEN throw(q, keywordCheck(a[2]))
                                    ELSE append(q, <<"::" \o kw>>)
                           ELSE LET q == this_expr(append(p, <<"CAST(">>), a[1])
                                IN  IF keywordCheck(a[2]) # NoErr THEN throw(q, keywordCheck(a[2]))
                                    ELSE append(q, <<" AS " \o kw \o ")">>))
                    [] fn = "EXTRACT" ->
                       checkArity(2,
                           IF keywordCheck(a[2]) # NoErr THEN throw(p, keywordCheck(a[2]))
                           ELSE append(this_expr(append(p, <<"EXTRACT(" \o kw \o " FROM ">>), a[1]),
                                       <<")">>))
                    [] fn = "CASE" ->
                       \* append is called with the function first, not with the array
                       append(append(append(p, <<"CASE ">>), <<CaseCallbackSource, Str(" ")>>),
                              <<" END">>)
                    [] OTHER ->
                       IF ~keywordOk(fn) THEN throw(p, keywordError(fn))
                       ELSE append(appendArray(append(p, <<fn \o "(">>), a, "expr", Null, ","),
                                   <<")">>)
         IN  form(toUpperCase(e.v[1].v), Tail(e.v), Len(e.v) - 1)
    ELSE IF e.k = "obj" THEN appendArray(p, e.keys, "objectKey", e, " AND ")
    ELSE IF e.k = "date" THEN p   \* an object without own keys
    ELSE this_value(p, e, FALSE)

\* where(where): nothing for a falsy condition
where(p, w) == IF ~Truthy(w) THEN p ELSE this_expr(p, w)

\* the function that table() hands to append, for entry t at position i
tableEntry(p, t, i) ==
    IF t.k = "str"
    THEN append(p, <<(IF i > 1 THEN "LEFT JOIN " ELSE "") \o identOf(p, t.v)>>)
    ELSE LET joined(q) ==
                 IF i > 1
                 THEN append(q, <<(IF Truthy(Get(t, "join")) THEN JsString(Get(t, "join"))
                                   ELSE "LEFT") \o " JOIN ">>)
                 ELSE q
             \* a Query has no chunks property: t.table.chunks[0] reads from undefined
             named(q) ==
                 IF Get(t, "table").k = "query"
                 THEN throw(q, TypeError("Cannot read properties of undefined (reading '0')"))
                 ELSE append(q, <<identOf(q, JsString(Get(t, "table")))>>)
             aliased(q) ==
                 IF Truthy(Get(t, "as"))
                 THEN append(q, <<" AS " \o identOf(q, JsString(Get(t, "as")))>>)
                 ELSE q
             on(q) ==
                 IF Truthy(Get(t, "on")) THEN where(append(q, <<" ON ">>), Get(t, "on")) ELSE q
         IN  on(aliased(named(joined(p))))

table(p, tables) == appendArray(p, tables, "tableEntry", Null, " ")

fields(p, fs) ==
    CASE fs.k = "str" -> append(p, <<fs.v>>)
      [] fs.k = "arr" -> appendArray(p, fs.v, "ident", Null, ",")
      [] OTHER        -> appendArray(p, fs.keys, "fieldsKey", fs, ",")

exprs(p, es) ==
    CASE es.k = "str" -> append(p, <<es.v>>)
      [] es.k = "arr" -> appendArray(p, es.v, "exprsEl", Null, ",")
      [] OTHER        -> this_expr(p, es)

order(p, es) ==
    CASE es.k = "str" -> append(p, <<es.v>>)
      [] es.k = "arr" -> appendArray(p, es.v, "orderEl", Null, ",")
      [] OTHER        -> this_expr(p, es)

\* One SET value of updates() and one cell of rows(): the transform pipeline.
\* fnArgs are the arguments a function transform receives after the value;
\* global is how the result of a global function transform is compiled:
\* updates() hands it to expr, rows() to value.
cell(p, val, transform, key, fnArgs, global) ==
    LET tk == IF transform.k = "obj" THEN Get(transform, key) ELSE Undefined
    IN  IF ~Ok(p) THEN p
        ELSE IF transform.k = "fn"
        THEN IF global = "expr" THEN this_expr(p, ApplyFn(transform, <<val>> \o fnArgs))
             ELSE this_value(p, ApplyFn(transform, <<val>> \o fnArgs), FALSE)
        ELSE IF transform = Bool(FALSE) THEN this_expr(p, val)
        ELSE IF transform.k = "null"
        THEN throw(p, TypeError("Cannot read properties of null"))
        ELSE IF transform.k = "obj" /\ tk = Bool(FALSE) THEN this_expr(p, val)
        ELSE IF transform.k = "obj" /\ tk.k = "str"
        THEN IF isVar(val) THEN this_expr(p, TypedVar(val.v, tk.v)) ELSE this_expr(p, TypedVar(val, tk.v))
        ELSE IF transform.k = "obj" /\ tk.k = "fn" THEN this_expr(p, ApplyFn(tk, <<val>> \o fnArgs))
        ELSE IF isVar(val) THEN this_expr(p, val)
        ELSE this_expr(p, Var(val))

\* the functions that the compiler hands to append(array, fn, separator)
callback(p, cb, env, el, i) ==
    CASE cb = "expr" -> this_expr(p, el)
      [] cb = "valueInVar" -> this_value(p, el, TRUE)
      [] cb = "objectKey" ->
           LET v == Get(env, el)
           IN  IF v.k = "arr"
               THEN this_expr(p, Arr(<<IF Len(v.v) > 0 THEN v.v[1] ELSE Undefined, Sym(el)>>
                                \o (IF Len(v.v) > 0 THEN Tail(v.v) ELSE <<>>)))
               ELSE IF v.k = "null" THEN append(p, <<identOf(p, el) \o " IS NULL">>)
               ELSE IF v.k = "re" THEN regexpAppend(p, v, el, FALSE)
               ELSE IF v.k = "var" /\ v.v.k = "re" THEN regexpAppend(p, v.v, el, TRUE)
               ELSE this_value(append(p, <<identOf(p, el) \o "=">>), v, FALSE)
      [] cb = "tableEntry" -> tableEntry(p, el, i)
      [] cb = "ident" -> append(p, <<identOf(p, el.v)>>)
      [] cb = "fieldsKey" ->
           IF Get(env, el) = Bool(TRUE) THEN append(p, <<identOf(p, el)>>)
           ELSE append(this_expr(p, Get(env, el)), <<" AS " \o identOf(p, el)>>)
      [] cb = "exprsEl" ->
           IF el.k = "str" THEN append(p, <<identOf(p, el.v)>>) ELSE this_expr(p, el)
      [] cb = "orderEl" ->
           IF el.k = "str" THEN append(p, <<identOf(p, el.v)>>)
           ELSE LET q == this_expr(p, At(el, 1))
                    dir == At(el, 2)
                IN  IF ~Truthy(dir) THEN append(q, <<"">>)
                    ELSE IF keywordCheck(dir) # NoErr THEN throw(q, keywordCheck(dir))
                    ELSE append(q, <<" " \o JsString(dir)>>)
      [] cb = "updatesKey" ->
           cell(append(p, <<identOf(p, el) \o "=">>), Get(env.updates, el), env.transform,
                el, <<el, env.updates>>, "expr")
      [] cb = "row" ->
           append(appendArray(append(p, <<"(">>), env.fields, "rowCell",
                              [transform |-> env.transform, row |-> el, i |-> i - 1,
                               rows |-> env.rows], ","),
                  <<")">>)
      [] cb = "rowCell" ->
           cell(p,
                IF ~Truthy(env.row) THEN Null
                ELSE IF env.row.k = "obj" THEN Get(env.row, el.v) ELSE Undefined,
                env.transform, el.v, <<Num(env.i), el, env.row, env.rows>>, "value")
      [] cb = "conflictKey" ->
           LET excluded(field) ==
                   IF isPostgres(p.sql.flavor) THEN "EXCLUDED." \o field
                   ELSE "VALUES(" \o field \o ")"
               resolved(field, exclId, tbl, v, rule) ==
               IF v.k = "re"
               THEN CASE rule = "update" -> append(p, <<field \o "=" \o exclId>>)
                      [] rule = "fill" ->
                           append(p, <<field \o "=COALESCE(" \o tbl \o "." \o field \o ", "
                                       \o exclId \o ")">>)
                      [] rule = "inc" -> append(p, <<field \o "=" \o tbl \o "." \o field \o "+1">>)
                      [] rule = "dec" -> append(p, <<field \o "=" \o tbl \o "." \o field \o "-1">>)
                      [] rule = "add" ->
                           append(p, <<field \o "=" \o tbl \o "." \o field \o "+" \o exclId>>)
                      [] rule = "sub" ->
                           append(p, <<field \o "=" \o tbl \o "." \o field \o "-" \o exclId>>)
                      [] rule = "max" ->
                           append(p, <<field \o "=GREATEST(" \o tbl \o "." \o field \o ", "
                                       \o exclId \o ")">>)
                      [] rule = "min" ->
                           append(p, <<field \o "=LEAST(" \o tbl \o "." \o field \o ", "
                                       \o exclId \o ")">>)
                      [] OTHER -> throw(p, Error("Unknown conflict rule: " \o v.source))
               ELSE this_expr(append(p, <<field \o "=">>), v)
           IN  resolved(identOf(p, el), excluded(identOf(p, el)), env.table,
                        Get(env.conflict, el), toLowerCase(Get(env.conflict, el).source))
      [] OTHER -> throw(p, Error("no such callback"))

updates(p, ups, transform) ==
    IF ups.k = "str" THEN append(p, <<ups.v>>)
    ELSE appendArray(p, ups.keys, "updatesKey", [updates |-> ups, transform |-> transform],
                     ",")

\* a variant of rowList that makes a row for the count 0
rowList_CountAtLeastOne(rows) ==
    CASE rows.k = "num" -> [i \in 1..(IF rows.v = 0 THEN 1 ELSE rows.v) |-> Undefined]
      [] rows.k = "genfn" -> rows.v
      [] rows.k = "gen" -> rows.v
      [] rows.k = "arr" -> rows.v
      [] OTHER          -> <<rows>>

\* a variant of rowList that reads a generator only up to its first value
rowList_FirstYield(rows) ==
    CASE rows.k = "num" -> [i \in 1..rows.v |-> Undefined]
      [] rows.k = "genfn" -> rows.v
      [] rows.k = "gen" -> SubSeq(rows.v, 1, IF Len(rows.v) > 0 THEN 1 ELSE 0)
      [] rows.k = "arr" -> rows.v
      [] OTHER          -> <<rows>>

\* the row list of rows(): Array(n) for a count, the yielded values of a
\* generator (function), the array itself, or the one row
rowList(rows) ==
    CASE rows.k = "num" -> [i \in 1..rows.v |-> Undefined]
      [] rows.k = "genfn" -> rows.v
      [] rows.k = "gen" -> rows.v
      [] rows.k = "arr" -> rows.v
      [] OTHER          -> <<rows>>

\* rows(rows, fields, transform); what it returns (the first row, or null) is
\* firstRow(rows)
rows(p, rs, fs, transform) ==
    LET list == rowList(rs)
        flds == IF Truthy(fs) THEN fs.v ELSE [i \in 1..Len(list[1].keys) |-> Str(list[1].keys[i])]
    IN  IF ~Ok(p) THEN p
        ELSE IF Len(list) = 0 THEN append(p, <<"(SELECT NULL WHERE 1=0)">>)
        ELSE IF ~Truthy(fs) /\ list[1].k \in {"null", "undef"}
        THEN throw(p, TypeError("Cannot convert undefined or null to object"))
        ELSE appendArray(
                 append(appendArray(append(p, <<"(">>), flds, "ident", Null, ","),
                        <<") VALUES ">>),
                 list, "row", [fields |-> flds, transform |-> transform, rows |-> list],
                 ",")

firstRow(rs) == IF Len(rowList(rs)) = 0 THEN Null ELSE rowList(rs)[1]

\* conflict(conflict, table); table is the table list of the Tables handle,
\* which ident turns into a string
conflict(p, c, tables) ==
    IF ~Ok(p) \/ ~Truthy(c) THEN p
    ELSE IF c.k = "str" THEN append(p, <<c.v>>)
    ELSE appendArray(p, c.keys, "conflictKey",
                     [conflict |-> c, table |-> identOf(p, ArrayToString(Arr(tables)))],
                     ",")

(***************************************************************************)
(* Builder: the four statements.  Each returns the buffer of the Query it  *)
(* builds, or the buffer with the exception it threw.  An option that the  *)
(* caller leaves out is Undefined.                                         *)
(***************************************************************************)
NewParts(sql, text) == QueryParts(sql, <<text>>, <<>>)

SelectOptions ==
    [fields |-> Str("*"), distinct |-> Undefined, group |-> Undefined, having |-> Undefined,
     order |-> Undefined, limit |-> Undefined, offset |-> Undefined]

select(sql, tbl, w, o) ==
    LET distinct(p) ==
            IF ~Truthy(o.distinct) THEN p
            ELSE IF o.distinct = Bool(TRUE) THEN append(p, <<"DISTINCT ">>)
            ELSE append(exprs(append(append(p, <<"DISTINCT ">>), <<"ON (">>), o.distinct),
                        <<") ">>)
        from(p) == IF Len(tbl) # 0 THEN table(append(p, <<" FROM ">>), tbl) ELSE p
        filtered(p) == IF Truthy(w) THEN where(append(p, <<" WHERE ">>), w) ELSE p
        grouped(p) == IF Truthy(o.group) THEN exprs(append(p, <<" GROUP BY ">>), o.group) ELSE p
        having(p) == IF Truthy(o.having) THEN where(append(p, <<" HAVING ">>), o.having) ELSE p
        ordered(p) == IF Truthy(o.order) THEN order(append(p, <<" ORDER BY ">>), o.order) ELSE p
        limited(p) ==
            IF Truthy(o.limit) THEN this_value(append(p, <<" LIMIT ">>), o.limit, FALSE) ELSE p
        offset(p) ==
            IF Truthy(o.offset) THEN this_value(append(p, <<" OFFSET ">>), o.offset, FALSE) ELSE p
    IN  offset(limited(ordered(having(grouped(filtered(from(
            fields(distinct(NewParts(sql, "SELECT ")), o.fields))))))))

update(sql, tbl, ups, w, transform) ==
    LET filtered(p) == IF Truthy(w) THEN where(append(p, <<" WHERE ">>), w) ELSE p
    IN  filtered(updates(append(table(NewParts(sql, "UPDATE "), tbl), <<" SET ">>),
                         ups, transform))

InsertOptions ==
    [fields |-> Undefined, transform |-> Undefined, unique |-> Undefined,
     conflict |-> Undefined, returnId |-> Undefined]

\* a variant of insertOptionsError without the check of the indexed dialect
insertOptionsError_UniqueOnly(sql, o) ==
    IF Truthy(o.unique) /\ o.conflict.k = "undef"
    THEN Error("\"conflict\" should be either false (to ignore conflicts) or an update object when \"unique\" is set")
    ELSE NoErr

\* the two checks insert makes of its options before it creates the buffer
insertOptionsError(sql, o) ==
    IF Truthy(o.unique) /\ o.conflict.k = "undef"
    THEN Error("\"conflict\" should be either false (to ignore conflicts) or an update object when \"unique\" is set")
    ELSE IF ~Truthy(o.unique) /\ o.conflict.k # "undef" /\ isPostgres(sql.flavor)
    THEN Error("Specifying \"conflict\" on Postgres requires also specifying \"unique\" fields (constraints)")
    ELSE NoErr

insert(sql, tbl, rs, o) ==
    LET ignore(p) ==
            IF isMySQL(sql.flavor) /\ o.conflict = Bool(FALSE)
            THEN append(p, <<"IGNORE ">>) ELSE p
        unique(p) ==
            IF Truthy(o.unique) /\ o.unique.k = "arr"
            THEN ArrayToString(Arr([i \in 1..Len(o.unique.v) |->
                                        Str(identOf(p, JsString(o.unique.v[i])))]))
            ELSE JsString(o.unique)
        onConflict(p) ==
            IF isMySQL(sql.flavor)
            THEN IF Truthy(o.conflict)
                 THEN conflict(append(p, <<" ON DUPLICATE KEY UPDATE ">>), o.conflict, tbl)
                 ELSE p
            ELSE IF isPostgres(sql.flavor) /\ Truthy(o.unique)
            THEN IF Truthy(o.conflict)
                 THEN conflict(append(p, <<" ON CONFLICT (" \o unique(p) \o ") DO UPDATE SET ">>),
                               o.conflict, tbl)
                 ELSE append(p, <<" ON CONFLICT (" \o unique(p) \o ") DO NOTHING">>)
            ELSE p
        returning(p) ==
            IF Truthy(o.returnId) /\ isPostgres(sql.flavor)
            THEN append(p, <<" RETURNING " \o identOf(p, IF o.returnId = Bool(TRUE) THEN "id"
                                                         ELSE JsString(o.returnId))>>)
            ELSE p
    IN  IF insertOptionsError(sql, o) # NoErr
        THEN throw(NewParts(sql, ""), insertOptionsError(sql, o))
        ELSE returning(onConflict(
                 rows(table(append(ignore(NewParts(sql, "INSERT ")), <<"INTO ">>), tbl),
                      rs, o.fields, o.transform)))

delete(sql, tbl, w) ==
    LET filtered(p) == IF Truthy(w) THEN where(append(p, <<" WHERE ">>), w) ELSE p
    IN  filtered(table(NewParts(sql, "DELETE FROM "), tbl))

\* the dispatch of call: the method named f of buffer p, applied to x; the
\* four statements start from the buffer their first line creates
call(p, f, x) ==
    CASE f = "expr"     -> expr(p, x[1])
      [] f = "value"    -> value(p, x[1], x[2])
      [] f = "callback" -> callback(p, x[1], x[2], x[3], x[4])
      [] f = "select"   -> select(p.sql, x[1], x[2], x[3])
      [] f = "update"   -> update(p.sql, x[1], x[2], x[3], x[4])
      [] f = "insert"   -> insert(p.sql, x[1], x[2], x[3])
      [] f = "delete"   -> delete(p.sql, x[1], x[2])

(***************************************************************************)
(* Execution: Query.explain, SQL.exec, the methods of a Query that run it, *)
(* and SQL.begin.  The collaborators are the pool that the SQL instance    *)
(* was made with ("pool") and the connection that pool.connect() gives     *)
(* ("conn").                                                               *)
(***************************************************************************)
\* new Query(parts): a statement that ran into an exception is no Query
NewQuery(parts) == IF Ok(parts) THEN Query(parts, Null) ELSE parts

\* explain(opts): EXPLAIN, with the options in parentheses in Postgres, before
\* the first chunk; the parameters are the ones of the explained Query
explain(q, opts) ==
    LET f == q.parts.sql.flavor
        one(i) == toUpperCase(opts.keys[i]) \o " " \o JsString(opts.vals[i])
        prefix == "EXPLAIN"
                  \o (IF isPostgres(f) /\ Len(opts.keys) > 0
                      THEN " (" \o Join([i \in 1..Len(opts.keys) |-> one(i)], ",") \o ")"
                      ELSE "")
                  \o " "
    IN  Query(QueryParts(q.parts.sql,
                         <<prefix \o q.parts.chunks[1]>> \o Tail(q.parts.chunks),
                         q.parts.params),
              Null)

(***************************************************************************)
(* The tagged-template form: sql`text ${arg} text`.                        *)
(***************************************************************************)
Values(rs, fs) == [k |-> "values", rows |-> rs, fields |-> fs]

\* sql.values(rows, fields): one row that is not an array is a list of one
sqlValues(rs, fs) == Values(IF rs.k = "arr" THEN rs.v ELSE <<rs>>, fs)

\* the apply trap of the Proxy: the strings of the template are joined into
\* one chunk; an argument is pushed and written as $ and its position in the
\* template, a Values argument as the column list and one group of $n per
\* row, n being the number of parameters pushed so far
apply(sql, strings, args) ==
    LET names(v) == IF Truthy(v.fields) THEN [i \in 1..Len(v.fields.v) |-> v.fields.v[i].v]
                    ELSE v.rows[1].keys
        cellOf(row, names_, j) == IF row.k = "arr" THEN At(row, j) ELSE Get(row, names_[j])
        cells(v, names_) ==
            LET f[i \in 0..Len(v.rows)] ==
                    IF i = 0 THEN <<>>
                    ELSE f[i - 1] \o [j \in 1..Len(names_) |-> cellOf(v.rows[i], names_, j)]
            IN  f[Len(v.rows)]
        group(base, names_, r) ==
            "(" \o Join([j \in 1..Len(names_) |->
                            "$" \o ToString(base + (r - 1) * Len(names_) + j)], ",") \o ")"
        expansion(base, v, names_) ==
            "(" \o Join([j \in 1..Len(names_) |-> ident(sql.flavor, sql.convertCase, names_[j])], ",")
                \o ") VALUES "
                \o Join([r \in 1..Len(v.rows) |-> group(base, names_, r)], ",")
        one(st, i) ==
            IF i = Len(strings) THEN [st EXCEPT !.text = @ \o strings[i]]
            ELSE IF args[i].k = "values"
            THEN IF Len(args[i].rows) = 0
                 THEN [st EXCEPT !.text = @ \o strings[i] \o "(SELECT NULL WHERE 1=0)"]
                 ELSE [text |-> st.text \o strings[i]
                                \o expansion(Len(st.params), args[i], names(args[i])),
                       params |-> st.params \o cells(args[i], names(args[i]))]
            ELSE [text |-> st.text \o strings[i] \o "$" \o ToString(i),
                  params |-> Append(st.params, args[i])]
        f[i \in 0..Len(strings)] ==
            IF i = 0 THEN [text |-> "", params |-> <<>>] ELSE one(f[i - 1], i)
    IN  Query(QueryParts(sql, <<f[Len(strings)].text>>, f[Len(strings)].params), Null)

\* toCamelCase(k) of a name whose words are not empty
toCamelCase(k) ==
    LET words == Split(k, "_")
    IN  Join([i \in 1..Len(words) |->
                 IF i > 1
                 THEN ToUpperChar(Char(words[i], 1)) \o SubSeq(words[i], 2, Len(words[i]))
                 ELSE words[i]], "")

\* convertResults(results) of exec
convertResults(cc, results) ==
    IF results.k # "arr" THEN Arr(<<results>>)
    ELSE IF ~cc THEN results
    ELSE Arr([i \in 1..Len(results.v) |->
                 Obj([j \in 1..Len(results.v[i].keys) |-> toCamelCase(results.v[i].keys[j])],
                     results.v[i].vals)])

\* the text and the parameters that exec(query, params) hands on
execArgs(query, params) ==
    IF query.k = "query"
    THEN [text |-> toString(query.parts), params |-> Arr(query.parts.params)]
    ELSE [text |-> query.v, params |-> params]

\* exec that hands a statement on only the first time it sees it
sqlExec_Cached(log, db, via, query) ==
    IF \E i \in 1..Len(log) : log[i].method = "query" /\ log[i].text = execArgs(query, Undefined).text
    THEN log
    ELSE Append(log, [on |-> db, method |-> "query", via |-> via,
                      text |-> execArgs(query, Undefined).text,
                      params |-> execArgs(query, Undefined).params])

\* exec(query): one call of query(text, params) on the collaborator db of the
\* SQL instance, whatever was executed before
sqlExec(log, db, via, query) ==
    Append(log, [on |-> db, method |-> "query", via |-> via,
                 text |-> execArgs(query, Undefined).text,
                 params |-> execArgs(query, Undefined).params])

\* What the promise of exec becomes when the collaborator answers.  MySQL
\* answers through the callback: reject(error) or resolve(rows).  Postgres is
\* awaited inside the async function given to new Promise: when query throws
\* or its promise rejects, that function's own promise rejects, and neither
\* resolve nor reject of the returned promise is ever called.
execSettle(f, cc, answer) ==
    CASE answer.kind = "rows" -> Fulfilled(convertResults(cc, answer.rows))
      [] f = "mysql" /\ answer.how = "callback" -> Rejected(answer.error)
      [] OTHER -> Pending

\* the entries of a keyed result: one per distinct key in order of first
\* occurrence, holding the last value of the key, or all of them when grouped
Keyed(keys, values, grouped) ==
    LET f[i \in 0..Len(keys)] ==
            IF i = 0 THEN [keys |-> <<>>, vals |-> <<>>]
            ELSE LET prev == f[i - 1]
                     at == {j \in 1..Len(prev.keys) : prev.keys[j] = keys[i]}
                 IN  IF at = {}
                     THEN [keys |-> Append(prev.keys, keys[i]),
                           vals |-> Append(prev.vals,
                                           IF grouped THEN Arr(<<values[i]>>) ELSE values[i])]
                     ELSE [prev EXCEPT !.vals[CHOOSE j \in at : TRUE] =
                               IF grouped THEN Arr(Append(@.v, values[i])) ELSE values[i]]
    IN  f[Len(keys)]

\* What each method of a Query returns for the rows rs of exec, called as
\* one(), toArray(), toSet(), forEach(fn) and with the column "id" as key:
\* toObject('id'), toObjectArray('id'), toMap('id'), toMapArray('id').
triggerResult(t, rs) ==
    LET ids == [i \in 1..Len(rs.v) |-> Get(rs.v[i], "id")]
        names == [i \in 1..Len(rs.v) |-> JsString(ids[i])]
    IN  CASE t = "one" -> IF Len(rs.v) = 0 THEN Null ELSE rs.v[1]
          [] t = "forEach" -> Undefined
          [] t = "toSet" -> [k |-> "set", v |-> rs.v]
          [] t = "toObject" ->
               Obj(Keyed(names, rs.v, FALSE).keys, Keyed(names, rs.v, FALSE).vals)
          [] t = "toObjectArray" ->
               Obj(Keyed(names, rs.v, TRUE).keys, Keyed(names, rs.v, TRUE).vals)
          [] t = "toMap" ->
               [k |-> "map", keys |-> Keyed(ids, rs.v, FALSE).keys,
                vals |-> Keyed(ids, rs.v, FALSE).vals]
          [] t = "toMapArray" ->
               [k |-> "map", keys |-> Keyed(ids, rs.v, TRUE).keys,
                vals |-> Keyed(ids, rs.v, TRUE).vals]
          [] OTHER -> rs

\* the promise a method of a Query returns once the promise of exec is settled
triggerSettle(t, exec) ==
    IF exec.state = "fulfilled" THEN Fulfilled(triggerResult(t, exec.value)) ELSE exec

(***************************************************************************)
(* The methods of a Query that map the rows of exec: mapFn and toObject,   *)
(* toObjectArray, toMap, toMapArray, toSet.  Each is given here for the    *)
(* rows exec resolved with, and is the promise the method returns.  An     *)
(* object is its own properties in the order JavaScript lists them; a Map  *)
(* is its keys in insertion order with their values; a Set is its members  *)
(* in insertion order.                                                     *)
(***************************************************************************)
\* the functions the model's callers pass as key or value:
\*   nameIndexCount  (row, i, rows) => row.name + '_' + i + '_' + rows.length
\*   parity          (row, i) => i % 2
ApplyRowFn(f, row, index, rs) ==
    CASE f.name = "nameIndexCount" ->
           Str(JsString(Get(row, "name")) \o "_" \o ToString(index) \o "_"
               \o ToString(Len(rs)))
      [] f.name = "parity" -> Num(index % 2)
      [] OTHER -> Undefined

\* mapFn(field, row, index, rows); field is never a class nor null here
RECURSIVE mapFn(_, _, _, _)
mapFn(field, row, index, rs) ==
    CASE field.k = "fn"  -> ApplyRowFn(field, row, index, rs)
      [] field.k = "arr" ->
           Arr([i \in 1..Len(field.v) |-> mapFn(field.v[i], row, index, rs)])
      [] field.k = "str" -> Get(row, field.v)
      [] field.k = "obj" ->
           Obj(field.keys, [i \in 1..Len(field.keys) |-> mapFn(field.vals[i], row, index, rs)])
      [] OTHER -> row

\* values.join('_'): null and undefined are written as the empty string
JoinUnderscore(values) ==
    LET f[i \in 0..Len(values)] ==
            IF i = 0 THEN ""
            ELSE f[i - 1] \o (IF i > 1 THEN "_" ELSE "")
                 \o (IF values[i].k \in {"null", "undef"} THEN "" ELSE JsString(values[i]))
    IN  f[Len(values)]

\* key.map(k => row[k]).join('_')
JoinedKey(key, row) == Str(JoinUnderscore([i \in 1..Len(key.v) |-> Get(row, JsString(key.v[i]))]))

\* the key toObject computes for rows[i]
keyOfRow(key, rs, i) ==
    CASE key.k = "fn"  -> ApplyRowFn(key, rs[i], i - 1, rs)
      [] key.k = "arr" -> JoinedKey(key, rs[i])
      [] OTHER         -> Get(rs[i], JsString(key))

\* a canonical array index: the property names an object lists first
IsArrayIndex(name) ==
    /\ Len(name) > 0
    /\ \A i \in 1..Len(name) : IsDigit(Char(name, i))
    /\ Len(name) = 1 \/ Char(name, 1) # "0"

ToNumber(name) ==
    LET f[i \in 0..Len(name)] ==
            IF i = 0 THEN 0 ELSE f[i - 1] * 10 + IndexOf(Char(name, i), Digits) - 1
    IN  f[Len(name)]

\* s with x inserted after its first n elements
InsertAt(s, n, x) == SubSeq(s, 1, n) \o <<x>> \o SubSeq(s, n + 1, Len(s))

\* o[name] = val on a plain object: an existing property keeps its place, a
\* new array index goes among the array indices in ascending order, any other
\* new name goes last
ObjPut(o, name, val) ==
    IF \E j \in 1..Len(o.keys) : o.keys[j] = name
    THEN [o EXCEPT !.vals[CHOOSE j \in 1..Len(o.keys) : o.keys[j] = name] = val]
    ELSE IF IsArrayIndex(name)
    THEN Obj(InsertAt(o.keys,
                      Cardinality({j \in 1..Len(o.keys) :
                                      IsArrayIndex(o.keys[j])
                                      /\ ToNumber(o.keys[j]) < ToNumber(name)}),
                      name),
             InsertAt(o.vals,
                      Cardinality({j \in 1..Len(o.keys) :
                                      IsArrayIndex(o.keys[j])
                                      /\ ToNumber(o.keys[j]) < ToNumber(name)}),
                      val))
    ELSE Obj(Append(o.keys, name), Append(o.vals, val))

\* new Map(), and map.set(key, val): keys are compared as values
NewMap == [k |-> "map", keys |-> <<>>, vals |-> <<>>]

MapPut(m, key, val) ==
    IF \E j \in 1..Len(m.keys) : m.keys[j] = key
    THEN [m EXCEPT !.vals[CHOOSE j \in 1..Len(m.keys) : m.keys[j] = key] = val]
    ELSE [m EXCEPT !.keys = Append(@, key), !.vals = Append(@, val)]

MapHas(m, key) == \E j \in 1..Len(m.keys) : m.keys[j] = key

MapGet(m, key) == m.vals[CHOOSE j \in 1..Len(m.keys) : m.keys[j] = key]

\* the properties every plain object inherits from Object.prototype
InheritedNames ==
    {"constructor", "toString", "toLocaleString", "valueOf", "hasOwnProperty",
     "isPrototypeOf", "propertyIsEnumerable", "__proto__", "__defineGetter__",
     "__defineSetter__", "__lookupGetter__", "__lookupSetter__"}

\* toObject(key, value): Object.fromEntries of [key, mapFn(value, row)]
toObject(rs, key, field) ==
    LET f[i \in 0..Len(rs)] ==
            IF i = 0 THEN Obj(<<>>, <<>>)
            ELSE ObjPut(f[i - 1], JsString(keyOfRow(key, rs, i)),
                        mapFn(field, rs[i], i - 1, rs))
    IN  Fulfilled(f[Len(rs)])

\* the key toObjectArray, toMap and toMapArray compute for rows[i]; their
\* array branch reads the variable row, which none of them declares
keyInLoop(key, rs, i) ==
    CASE key.k = "fn"  -> ApplyRowFn(key, rs[i], i - 1, rs)
      [] key.k = "arr" -> Str("")
      [] OTHER         -> Get(rs[i], JsString(key))

\* key.map(k => row[k]) throws as soon as the callback runs
RowNotDefined(key) == key.k = "arr" /\ Len(key.v) > 0

\* toObjectArray(key, value): (obj[k] ||= []).push(mapFn(value, row))
toObjectArray(rs, key, field) ==
    LET push(acc, name, val) ==
            IF \E j \in 1..Len(acc.value.keys) : acc.value.keys[j] = name
            THEN Fulfilled(ObjPut(acc.value, name, Arr(Append(Get(acc.value, name).v, val))))
            ELSE IF name \in InheritedNames
            THEN Rejected(TypeError("(obj[k] ||= []).push is not a function"))
            ELSE Fulfilled(ObjPut(acc.value, name, Arr(<<val>>)))
        f[i \in 0..Len(rs)] ==
            IF i = 0 THEN Fulfilled(Obj(<<>>, <<>>))
            ELSE IF f[i - 1].state = "rejected" THEN f[i - 1]
            ELSE IF RowNotDefined(key) THEN Rejected(ReferenceError("row is not defined"))
            ELSE push(f[i - 1], JsString(keyInLoop(key, rs, i)),
                      mapFn(field, rs[i], i - 1, rs))
    IN  f[Len(rs)]

\* toMap(key, value): map.set(key, mapFn(value, row))
toMap(rs, key, field) ==
    LET f[i \in 0..Len(rs)] ==
            IF i = 0 THEN Fulfilled(NewMap)
            ELSE IF f[i - 1].state = "rejected" THEN f[i - 1]
            ELSE IF RowNotDefined(key) THEN Rejected(ReferenceError("row is not defined"))
            ELSE Fulfilled(MapPut(f[i - 1].value, keyInLoop(key, rs, i),
                                  mapFn(field, rs[i], i - 1, rs)))
    IN  f[Len(rs)]

\* toMapArray(key, value): map.get(k).push(mapFn(value, row))
toMapArray(rs, key, field) ==
    LET push(m, k, val) ==
            MapPut(m, k, Arr(Append(IF MapHas(m, k) THEN MapGet(m, k).v ELSE <<>>, val)))
        f[i \in 0..Len(rs)] ==
            IF i = 0 THEN Fulfilled(NewMap)
            ELSE IF f[i - 1].state = "rejected" THEN f[i - 1]
            ELSE IF RowNotDefined(key) THEN Rejected(ReferenceError("row is not defined"))
            ELSE Fulfilled(push(f[i - 1].value, keyInLoop(key, rs, i),
                                mapFn(field, rs[i], i - 1, rs)))
    IN  f[Len(rs)]

\* a value that is compared by what it is; an object is compared by which
\* object it is, and mapFn makes a new one (or hands out the row) every time
IsPrimitive(v) == v.k \in {"str", "num", "bool", "null", "undef"}

\* toSet(value): set.add(mapFn(value, row))
toSet(rs, field) ==
    LET add(members, v) ==
            IF IsPrimitive(v) /\ \E j \in 1..Len(members) : members[j] = v
            THEN members ELSE Append(members, v)
        f[i \in 0..Len(rs)] ==
            IF i = 0 THEN <<>> ELSE add(f[i - 1], mapFn(field, rs[i], i - 1, rs))
    IN  Fulfilled([k |-> "set", v |-> f[Len(rs)]])

\* The get trap of the Proxy around an SQL instance: a property the instance
\* has is read from it, any other name is a table.
SqlMembers == {"$db", "$config", "$builder", "values", "exec", "from", "join", "begin"}

TablesMembers ==
    {"sql", "list", "join", "toString", "selectAll", "selectOne", "select", "update",
     "insert", "delete"}

ProxyGet(prop) ==
    IF prop = "$db" THEN [k |-> "db", name |-> prop, members |-> {"connect", "query", "release"}]
    ELSE IF prop \in SqlMembers THEN [k |-> "member", name |-> prop, members |-> {}]
    ELSE [k |-> "tables", list |-> <<Str(prop)>>, members |-> TablesMembers]

\* a scoped handle made with the pool
handleDb_Pool(h) == "pool"

\* the collaborator behind a handle: tx is new SQL(connection, config), sql
\* is the instance begin was called on
handleDb(h) == IF h = "tx" THEN "conn" ELSE "pool"

(***************************************************************************)
(* Bounds and input alphabets.                                             *)
(***************************************************************************)
MaxNameLen == 3

MaxStrLen == 3

NameAlphabet == {"a", "B", ".", BQ, "\"", "*"}

StringAlphabet == {"a", "'", "\\", "\"", "\n", "?"}

\* every string over alphabet A of length at most n
Strings(A, n) ==
    LET f[i \in 0..n] == IF i = 0 THEN {""} ELSE f[i - 1] \cup {s \o c : s \in f[i - 1], c \in A}
    IN  f[n]

SqlConfig == [flavor |-> flavor, convertCase |-> convertCase]

\* before begin is called: no connection, no failure in hand
NoTx == [acquired |-> FALSE, returned |-> FALSE, failure |-> Null, thrown |-> Null, issued |-> 0]

\* nothing has been executed
NothingRuns ==
    /\ pc = "idle"
    /\ dbLog = <<>>
    /\ calls = <<>>
    /\ tx = NoTx
    /\ released = 0
    /\ outcome = Pending

(***************************************************************************)
(* SpecEsc: the escaper applied to bounded inputs.  The input is drawn     *)
(* first; one step escapes it, as an identifier with ident() or as the     *)
(* string value of the conjunctive form {c: input}.                        *)
(***************************************************************************)
InitEsc ==
    /\ flavor \in Flavors
    /\ convertCase \in BOOLEAN
    /\ op = "none"
    /\ input \in {Sym(n) : n \in Strings(NameAlphabet, MaxNameLen)}
                 \cup {Str(v) : v \in Strings(StringAlphabet, MaxStrLen)}
    /\ output = Null
    /\ NothingRuns

EscIdent ==
    /\ op = "none"
    /\ input.k = "sym"
    /\ op' = "ident"
    /\ output' = Str(ident(flavor, convertCase, input.v))
    /\ UNCHANGED <<config, input, runtime>>

EscString ==
    /\ op = "none"
    /\ input.k = "str"
    /\ op' = "string"
    /\ output' = call(NewParts(SqlConfig, ""), "expr", <<Obj(<<"c">>, <<input>>)>>)
    /\ UNCHANGED <<config, input, runtime>>

NextEsc == EscIdent \/ EscString

SpecEsc == InitEsc /\ [][NextEsc]_vars

(***************************************************************************)
(* SpecExpr: expr() applied to bounded expressions.  The input is either a  *)
(* pair of columns and values, compiled first as the object {a: x, b: y}   *)
(* and then as the operator form ['AND', ['=', a, x], ['=', b, y]], or one *)
(* operator form [fn, ...operands] with 0..MaxOperands operands.           *)
(***************************************************************************)
MaxOperands == 4

MaxBranches == 3

PairNames == {"a", "userId"}

PairValues ==
    {Num(1), Str("x"), Str("o'k"), Bool(TRUE), Var(Num(1)), Var(Str("s")), Null,
     RegExp("^a", "")}

SpecialForms ==
    {"IN", "NOTIN", "NOT IN", "IS NULL", "IS NOT NULL", "NOT", "BETWEEN", "NOT BETWEEN",
     "TYPE", "CAST", "EXTRACT"}

\* the operands of the forms: a column, a string that is also a keyword, a parameter
OperandPool == <<Sym("a"), Str("int"), Var(Num(1))>>

Operands(n, shift) == [i \in 1..n |-> OperandPool[((i + shift) % Len(OperandPool)) + 1]]

PairInputs ==
    {[kind |-> "pair", a |-> a, b |-> "b", x |-> x, y |-> y] :
        a \in PairNames, x \in PairValues, y \in PairValues}

FormInputs ==
    {[kind |-> "form", fn |-> fn, operands |-> Operands(n, shift)] :
        fn \in MaybeUnaryOperators \cup Operators \cup SpecialForms,
        n \in 0..MaxOperands, shift \in 1..Len(OperandPool)}

\* the second operands of IN: arrays, Parameters of arrays, and values that
\* are neither
InSeconds ==
    {Arr(<<Num(1), Str("x"), Var(Num(2))>>), Arr(<<Sym("b")>>), Arr(<<>>),
     Var(Arr(<<Num(1), Str("y")>>)), Var(Arr(<<>>)),
     Num(5), Str("x"), Null, Var(Num(5)), Var(Str("s"))}

InInputs ==
    {[kind |-> "form", fn |-> fn, operands |-> <<a, b>>] :
        fn \in {"in", "IN", "not in", "NOT IN", "NOTIN"},
        a \in {Sym("a"), Var(Num(9))}, b \in InSeconds}

\* the branches of CASE: [cond, then] pairs and one-element branches
CaseBranches ==
    {Arr(<<Sym("c"), Var(Num(1))>>), Arr(<<Sym("d"), Str("int")>>), Arr(<<Var(Str("z"))>>)}

CaseInputs ==
    {[kind |-> "form", fn |-> fn, operands |-> bs] :
        fn \in {"case", "CASE"},
        bs \in UNION {[1..n -> CaseBranches] : n \in 1..MaxBranches}}

ObjectForm(in) == Obj(<<in.a, in.b>>, <<in.x, in.y>>)

OperatorForm(in) ==
    Arr(<<Str("AND"), Arr(<<Str("="), Sym(in.a), in.x>>), Arr(<<Str("="), Sym(in.b), in.y>>)>>)

InitExpr ==
    /\ flavor \in Flavors
    /\ convertCase \in BOOLEAN
    /\ op = "none"
    /\ input \in PairInputs \cup FormInputs \cup InInputs \cup CaseInputs
    /\ output = <<>>
    /\ NothingRuns

\* expr({a: x, b: y}) on a fresh buffer
ExprObject ==
    /\ op = "none"
    /\ input.kind = "pair"
    /\ op' = "object"
    /\ output' = <<call(NewParts(SqlConfig, ""), "expr", <<ObjectForm(input)>>)>>
    /\ UNCHANGED <<config, input, runtime>>

\* expr(['AND', ['=', a, x], ['=', b, y]]) on another fresh buffer
ExprOperator ==
    /\ op = "object"
    /\ op' = "operator"
    /\ output' = Append(output, call(NewParts(SqlConfig, ""), "expr", <<OperatorForm(input)>>))
    /\ UNCHANGED <<config, input, runtime>>

\* expr([fn, ...operands]) on a fresh buffer
ExprForm ==
    /\ op = "none"
    /\ input.kind = "form"
    /\ op' = "form"
    /\ output' = <<call(NewParts(SqlConfig, ""), "expr",
                         <<Arr(<<Str(input.fn)>> \o input.operands)>>)>>
    /\ UNCHANGED <<config, input, runtime>>

NextExpr == ExprObject \/ ExprOperator \/ ExprForm

SpecExpr == InitExpr /\ [][NextExpr]_vars

(***************************************************************************)
(* SpecStmt: the four statement builders applied to bounded arguments.     *)
(* The arguments are drawn first; one step builds the statement.           *)
(***************************************************************************)
Conditions ==
    {Null,
     Obj(<<"id">>, <<Var(Num(7))>>),
     Obj(<<"id", "name">>, <<Var(Num(7)), Str("who?")>>),
     Obj(<<"a$1", "b">>, <<Str("$2"), Var(Str("v"))>>),
     Arr(<<Str("and"), Arr(<<Str("="), Sym("a"), Var(Num(1))>>),
           Arr(<<Str("in"), Sym("b"), Var(Arr(<<Num(2), Num(3)>>))>>)>>),
     Arr(<<Str("?"), Sym("tags"), Var(Str("k"))>>)}

SelectInputs ==
    {[kind |-> "select", table |-> <<Str("t")>>, where |-> w, options |-> o] :
        w \in Conditions,
        o \in {SelectOptions,
                [SelectOptions EXCEPT !.limit = Var(Num(5)), !.offset = Num(2)],
                [SelectOptions EXCEPT !.fields = Obj(<<"n">>, <<Arr(<<Str("count"), Var(Num(1))>>)>>),
                                      !.having = Obj(<<"n">>, <<Var(Num(3))>>),
                                      !.group = Arr(<<Str("a")>>)]}}

\* select with every combination of its optional clauses, with one
\* parameter in each clause that can hold one
ClauseInputs ==
    {[kind |-> "select", table |-> t, where |-> w,
      options |-> [fields |-> Str("*"), distinct |-> d, group |-> g.group,
                   having |-> g.having, order |-> r, limit |-> l, offset |-> f]] :
        t \in {<<>>, <<Str("t")>>},
        w \in {Undefined, Obj(<<"id">>, <<Var(Num(7))>>)},
        d \in {Undefined, Bool(TRUE), Arr(<<Arr(<<Str("+"), Sym("a"), Var(Num(1))>>)>>)},
        g \in {[group |-> Undefined, having |-> Undefined],
                [group |-> Arr(<<Str("a")>>), having |-> Obj(<<"n">>, <<Var(Num(3))>>)]},
        r \in {Undefined, Arr(<<Arr(<<Sym("b"), Str("desc")>>)>>)},
        l \in {Undefined, Num(0), Num(10), Var(Num(5))},
        f \in {Undefined, Num(0), Var(Num(2))}}

\* a built statement with one parameter, for the table position
InnerQuery ==
    NewQuery(call(NewParts(SqlConfig, ""), "select",
                  <<<<Str("u")>>, Obj(<<"a">>, <<Var(Num(1))>>), SelectOptions>>))

\* select from a built statement: db.join({table: query, as: 's'}).select(where)
SubqueryInputs ==
    {[kind |-> "select", table |-> <<Obj(<<"table", "as">>, <<InnerQuery, Str("s")>>)>>,
      where |-> w, options |-> SelectOptions] :
        w \in {Null, Obj(<<"id">>, <<Var(Num(7))>>)}}

MaxRows == 3

\* rows with plain and wrapped values, keys in either order, a key missing
PlainRows ==
    {Obj(<<"a", "b">>, <<Num(1), Str("x")>>),
     Obj(<<"b", "a">>, <<Var(Num(2)), Null>>),
     Obj(<<"a">>, <<Bool(TRUE)>>)}

RowLists == UNION {[1..n -> PlainRows] : n \in 0..MaxRows}

\* insert(rows, {fields}) with the default transform: rows as an array, a
\* single object, a count, a generator and a generator function
RowInputs ==
    {[kind |-> "insert", table |-> <<Str("t")>>, rows |-> rs,
      options |-> [InsertOptions EXCEPT !.fields = fs]] :
        rs \in {Arr(l) : l \in RowLists} \cup {Gen(l) : l \in RowLists}
                \cup {GenFn(l) : l \in RowLists} \cup PlainRows
                \cup {Num(n) : n \in 0..MaxRows},
        fs \in {Undefined, Arr(<<Str("b"), Str("a")>>), Arr(<<Str("c"), Str("a")>>)}}

\* the strategies of a conflict spec, in the cases callers write them, and
\* names that are none of them
Strategies ==
    {"update", "fill", "inc", "dec", "add", "sub", "max", "min",
     "INC", "Fill", "MAX", "merge", "incr"}

ConflictSpecs ==
    {Obj(<<"id">>, <<RegExp(r, "")>>) : r \in Strategies}
    \cup {Obj(<<"id", "name">>, <<RegExp("inc", ""), Var(Str("Paul"))>>),
           Obj(<<"userName", "id">>,
               <<Arr(<<Str("||"), Sym("userName"), Var(Str("!"))>>), RegExp("Sub", "i")>>),
           Obj(<<"n", "id">>, <<Var(Num(0)), RegExp("drop", "")>>)}

\* insert({id: 100, name: 'John'}, {unique, conflict})
UpsertInputs ==
    {[kind |-> "insert", table |-> <<Str("users")>>,
      rows |-> Obj(<<"id", "name">>, <<Num(100), Str("John")>>),
      options |-> [InsertOptions EXCEPT !.unique = u, !.conflict = c]] :
        u \in {Undefined, Arr(<<Str("id")>>), Arr(<<Str("id"), Str("userName")>>)},
        c \in {Undefined, Bool(FALSE)} \cup ConflictSpecs}

InsertInputs ==
    {[kind |-> "insert", table |-> <<Str("t")>>, rows |-> rs, options |-> o] :
        rs \in {Arr(<<>>),
                 Obj(<<"a", "b">>, <<Num(1), Str("x?")>>),
                 Arr(<<Obj(<<"a">>, <<Num(1)>>), Obj(<<"a">>, <<Var(Num(2))>>)>>)},
        o \in {InsertOptions,
                [InsertOptions EXCEPT !.transform = Bool(FALSE)],
                [InsertOptions EXCEPT !.unique = Arr(<<Str("a")>>),
                                      !.conflict = Obj(<<"a">>, <<Arr(<<Str("+"), Sym("a"), Var(Num(1))>>)>>)]}}

UpdateInputs ==
    {[kind |-> "update", table |-> <<Str("t")>>, updates |-> u, where |-> w,
      transform |-> tr] :
        u \in {Obj(<<"a">>, <<Num(1)>>), Obj(<<"a", "b">>, <<Str("v?"), Var(Num(2))>>)},
        w \in Conditions, tr \in {Undefined, Bool(FALSE)}}

\* the entries Tables.join adds to the list of a handle
JoinedStatuses ==
    Obj(<<"table", "as", "on">>,
        <<Str("userStatuses"), Str("us"), Obj(<<"users.id">>, <<Sym("us.userId")>>)>>)

JoinedPhotos ==
    Obj(<<"table", "as", "on">>,
        <<Str("photos"), Str("p"), Obj(<<"p.kind">>, <<Var(Num(2))>>)>>)

JoinedPlain == Obj(<<"table", "on">>, <<Str("logs"), Obj(<<"logs.uid">>, <<Sym("users.id")>>)>>)

DeleteInputs ==
    {[kind |-> "delete", table |-> <<Str("t")>>, where |-> w] : w \in Conditions}
    \cup {[kind |-> "delete", table |-> <<Str("users")>> \o js, where |-> w] :
              js \in {<<JoinedStatuses>>, <<JoinedStatuses, JoinedPhotos>>,
                       <<JoinedPhotos, JoinedPlain>>},
              w \in {Undefined, Obj(<<"us.status">>, <<Var(Str("active"))>>)}}

InitStmt ==
    /\ flavor \in Flavors
    /\ convertCase \in BOOLEAN
    /\ op = "none"
    /\ input \in SelectInputs \cup ClauseInputs \cup SubqueryInputs \cup InsertInputs
                 \cup RowInputs \cup UpsertInputs
                 \cup UpdateInputs
                 \cup DeleteInputs
    /\ output = Null
    /\ NothingRuns

Select ==
    /\ op = "none"
    /\ input.kind = "select"
    /\ op' = "built"
    /\ output' = call(NewParts(SqlConfig, ""), "select",
                       <<input.table, input.where, input.options>>)
    /\ UNCHANGED <<config, input, runtime>>

Insert ==
    /\ op = "none"
    /\ input.kind = "insert"
    /\ op' = "built"
    /\ output' = call(NewParts(SqlConfig, ""), "insert",
                       <<input.table, input.rows, input.options>>)
    /\ UNCHANGED <<config, input, runtime>>

Update ==
    /\ op = "none"
    /\ input.kind = "update"
    /\ op' = "built"
    /\ output' = call(NewParts(SqlConfig, ""), "update",
                       <<input.table, input.updates, input.where, input.transform>>)
    /\ UNCHANGED <<config, input, runtime>>

Delete ==
    /\ op = "none"
    /\ input.kind = "delete"
    /\ op' = "built"
    /\ output' = call(NewParts(SqlConfig, ""), "delete", <<input.table, input.where>>)
    /\ UNCHANGED <<config, input, runtime>>

\* explain({analyze: true}) of the statement that was built
Explain ==
    /\ op = "built"
    /\ Ok(output)
    /\ op' = "explained"
    /\ output' = explain(NewQuery(output), Obj(<<"analyze">>, <<Bool(TRUE)>>)).parts
    /\ UNCHANGED <<config, input, runtime>>

NextStmt == Select \/ Insert \/ Update \/ Delete \/ Explain

SpecStmt == InitStmt /\ [][NextStmt]_vars

(***************************************************************************)
(* SpecExec: a statement is built and then run by one of the methods of    *)
(* Query, up to MaxTriggers times; the collaborator answers every call     *)
(* with rows or with an error, in its own time.                            *)
(***************************************************************************)
MaxTriggers == 2

Triggers ==
    {"then", "exec", "one", "toArray", "toObject", "toObjectArray", "toMap", "toMapArray",
     "toSet", "forEach"}

StatementKinds == {"select", "insert", "update", "delete", "explain"}

\* what the collaborator may answer: no row, two rows of one id, or the one
\* packet MySQL gives for a statement without rows
DbRows ==
    {Arr(<<>>),
     Arr(<<Obj(<<"id", "user_name">>, <<Num(1), Str("x")>>),
           Obj(<<"id", "user_name">>, <<Num(1), Str("y")>>)>>),
     Obj(<<"insertId">>, <<Num(5)>>)}

DbError == Error("connection lost")

\* how an error reaches exec: the callback of MySQL, a throw or a rejected
\* promise of Postgres
Answers(f, rowSets) ==
    {[kind |-> "rows", how |-> "", rows |-> r, error |-> Null] : r \in rowSets}
    \cup {[kind |-> "error", how |-> h, rows |-> Null, error |-> DbError] :
             h \in IF f = "mysql" THEN {"callback"} ELSE {"throw", "reject"}}

UsersWhere == Obj(<<"id">>, <<Var(Num(7))>>)

BuildStatement(kind) ==
    LET p0 == NewParts(SqlConfig, "")
        users == <<Str("users")>>
        sel == NewQuery(call(p0, "select", <<users, UsersWhere, SelectOptions>>))
    IN  CASE kind = "select" -> sel
          [] kind = "insert" ->
               NewQuery(call(p0, "insert",
                             <<users, Obj(<<"name">>, <<Str("John")>>), InsertOptions>>))
          [] kind = "update" ->
               NewQuery(call(p0, "update",
                             <<users, Obj(<<"name">>, <<Str("Jo")>>), UsersWhere, Undefined>>))
          [] kind = "delete" -> NewQuery(call(p0, "delete", <<users, UsersWhere>>))
          [] OTHER -> explain(sel, Obj(<<"analyze">>, <<Bool(TRUE)>>))

InitExec ==
    /\ flavor \in Flavors
    /\ convertCase \in BOOLEAN
    /\ op = "none"
    /\ input \in {[stmt |-> k, trigger |-> t] : k \in StatementKinds, t \in Triggers}
    /\ output = Null
    /\ NothingRuns

\* select, insert, update, delete or explain: the Query is made, nothing runs
Build ==
    /\ op = "none"
    /\ op' = "built"
    /\ output' = BuildStatement(input.stmt)
    /\ UNCHANGED <<config, input, runtime>>

\* a method of the Query is called: it calls sql.exec(this), which calls the
\* collaborator and returns a promise
Trigger ==
    /\ op = "built"
    /\ Len(calls) < MaxTriggers
    /\ dbLog' = sqlExec(dbLog, "pool", "sql", output)
    /\ calls' = Append(calls, [via |-> input.trigger, text |-> toString(output.parts),
                               db |-> "called", error |-> Null,
                               exec |-> Pending, out |-> Pending])
    /\ UNCHANGED <<config, op, input, output, pc, tx, released, outcome>>

\* the collaborator answers call i; exec() returns the promise of sql.exec itself
DbAnswer(i) ==
    /\ calls[i].db = "called"
    /\ \E ans \in Answers(flavor, DbRows) :
          LET p == execSettle(flavor, convertCase, ans)
          IN  calls' = [calls EXCEPT ![i].db = ans.kind,
                                     ![i].error = ans.error,
                                     ![i].exec = p,
                                     ![i].out = IF calls[i].via = "exec" THEN p ELSE @]
    /\ UNCHANGED <<config, op, input, output, pc, dbLog, tx, released, outcome>>

\* the method of call i goes on after its await
Resume(i) ==
    /\ calls[i].exec.state # "pending"
    /\ calls[i].out.state = "pending"
    /\ calls' = [calls EXCEPT ![i].out = triggerSettle(calls[i].via, calls[i].exec)]
    /\ UNCHANGED <<config, op, input, output, pc, dbLog, tx, released, outcome>>

NextExec ==
    \/ Build
    \/ Trigger
    \/ \E i \in 1..Len(calls) : DbAnswer(i)
    \/ \E i \in 1..Len(calls) : Resume(i)

SpecExec == InitExec /\ [][NextExec]_vars

(***************************************************************************)
(* SpecTx: begin(callback).  The callback issues up to MaxStatements       *)
(* statements and awaits each, through the scoped handle tx or through the *)
(* outer instance sql; it returns, or it throws.                           *)
(***************************************************************************)
MaxStatements == 2

Handles == {"tx", "sql"}

ConnectError == Error("pool exhausted")

CallbackError == Error("callback failed")

TxQueries == {BuildStatement("insert"), BuildStatement("select")}

\* one call of the log
LogEntry(on, method, via) ==
    [on |-> on, method |-> method, via |-> via, text |-> "", params |-> Undefined]

\* the promise of an exec call of begin or of its callback
TxCall(via, text, ans, p) ==
    [via |-> via, text |-> text, db |-> ans.kind, error |-> ans.error, exec |-> p, out |-> p]

\* where begin goes on after await exec(...): after it, in its catch block,
\* or nowhere while the promise stays pending
AfterAwait(p, then) ==
    CASE p.state = "fulfilled" -> then
      [] p.state = "rejected"  -> "catch"
      [] OTHER                 -> "hung"

InitTx ==
    /\ flavor \in Flavors
    /\ convertCase \in BOOLEAN
    /\ op = "none"
    /\ input = Null
    /\ output = Null
    /\ NothingRuns

\* const tx = new SQL(await this.$db.connect(), this.$config)
Begin ==
    /\ pc = "idle"
    /\ dbLog' = Append(dbLog, LogEntry("pool", "connect", "sql"))
    /\ \E ok \in BOOLEAN :
          IF ok THEN /\ pc' = "begin"
                     /\ tx' = [tx EXCEPT !.acquired = TRUE]
                     /\ UNCHANGED outcome
          ELSE /\ pc' = "done"
               /\ outcome' = Rejected(ConnectError)
               /\ UNCHANGED tx
    /\ UNCHANGED <<config, op, input, output, calls, released>>

\* await tx.exec('BEGIN')
TxBegin ==
    /\ pc = "begin"
    /\ dbLog' = sqlExec(dbLog, handleDb("tx"), "tx", Str("BEGIN"))
    /\ \E ans \in Answers(flavor, {Arr(<<>>)}) :
          LET p == execSettle(flavor, convertCase, ans)
          IN  /\ calls' = Append(calls, TxCall("tx", "BEGIN", ans, p))
              /\ pc' = AfterAwait(p, "callback")
              /\ tx' = IF p.state = "rejected" THEN [tx EXCEPT !.thrown = p.value] ELSE tx
    /\ UNCHANGED <<config, op, input, output, released, outcome>>

\* the callback awaits a statement on handle h
CallbackExec(h) ==
    /\ pc = "callback"
    /\ tx.issued < MaxStatements
    /\ \E q \in TxQueries, ans \in Answers(flavor, {Arr(<<>>)}) :
          LET p == execSettle(flavor, convertCase, ans)
          IN  /\ dbLog' = sqlExec(dbLog, handleDb(h), h, q)
              /\ calls' = Append(calls, TxCall(h, toString(q.parts), ans, p))
              /\ pc' = AfterAwait(p, "callback")
              /\ tx' = [tx EXCEPT !.issued = @ + 1,
                                  !.failure = IF ans.kind = "error" THEN ans.error ELSE @,
                                  !.thrown = IF p.state = "rejected" THEN p.value ELSE @]
    /\ UNCHANGED <<config, op, input, output, released, outcome>>

\* the callback throws an error of its own
CallbackThrow ==
    /\ pc = "callback"
    /\ pc' = "catch"
    /\ tx' = [tx EXCEPT !.failure = CallbackError, !.thrown = CallbackError]
    /\ UNCHANGED <<config, op, input, output, dbLog, calls, released, outcome>>

\* the callback returns
CallbackReturn ==
    /\ pc = "callback"
    /\ pc' = "commit"
    /\ tx' = [tx EXCEPT !.returned = TRUE]
    /\ UNCHANGED <<config, op, input, output, dbLog, calls, released, outcome>>

\* await tx.exec('COMMIT')
TxCommit ==
    /\ pc = "commit"
    /\ dbLog' = sqlExec(dbLog, handleDb("tx"), "tx", Str("COMMIT"))
    /\ \E ans \in Answers(flavor, {Arr(<<>>)}) :
          LET p == execSettle(flavor, convertCase, ans)
          IN  /\ calls' = Append(calls, TxCall("tx", "COMMIT", ans, p))
              /\ pc' = AfterAwait(p, "finally")
              /\ tx' = IF p.state = "rejected" THEN [tx EXCEPT !.thrown = p.value] ELSE tx
    /\ UNCHANGED <<config, op, input, output, released, outcome>>

\* catch (err) { await tx.exec('ROLLBACK'); throw err; }
TxRollback ==
    /\ pc = "catch"
    /\ dbLog' = sqlExec(dbLog, handleDb("tx"), "tx", Str("ROLLBACK"))
    /\ \E ans \in Answers(flavor, {Arr(<<>>)}) :
          LET p == execSettle(flavor, convertCase, ans)
          IN  /\ calls' = Append(calls, TxCall("tx", "ROLLBACK", ans, p))
              /\ pc' = IF p.state = "pending" THEN "hung" ELSE "finally"
              /\ tx' = IF p.state = "rejected" THEN [tx EXCEPT !.thrown = p.value] ELSE tx
    /\ UNCHANGED <<config, op, input, output, released, outcome>>

\* finally { tx.db.release(); }: tx.db is read through the get trap; when what
\* it gives has no release, the call throws a TypeError that takes the place
\* of whatever begin was about to return or throw
TxRelease ==
    /\ pc = "finally"
    /\ pc' = "done"
    /\ IF "release" \in ProxyGet("db").members
       THEN /\ released' = released + 1
            /\ dbLog' = Append(dbLog, LogEntry("conn", "release", "tx"))
            /\ outcome' = IF tx.thrown = Null THEN Fulfilled(Undefined) ELSE Rejected(tx.thrown)
       ELSE /\ outcome' = Rejected(TypeError("tx.db.release is not a function"))
            /\ UNCHANGED <<released, dbLog>>
    /\ UNCHANGED <<config, op, input, output, calls, tx>>

NextTx ==
    \/ Begin
    \/ TxBegin
    \/ \E h \in Handles : CallbackExec(h)
    \/ CallbackThrow
    \/ CallbackReturn
    \/ TxCommit
    \/ TxRollback
    \/ TxRelease

SpecTx == InitTx /\ [][NextTx]_vars

(***************************************************************************)
(* How each dialect reads text back: the reference the claims are stated   *)
(* against.                                                                *)
(***************************************************************************)
QuoteChar(f) == IF f = "mysql" THEN BQ ELSE "\""

\* one segment between quote characters q, every q inside it doubled
QuotedSegment(seg, q) == q \o Join(Split(seg, q), q \o q) \o q

\* the character a MySQL string literal denotes by backslash c
MysqlUnescape(c) ==
    CASE c = "n" -> "\n"
      [] c = "t" -> "\t"
      [] c = "r" -> "\r"
      [] OTHER   -> c

\* Reading the body of a quoted string literal from position i: a doubled
\* quote is one quote, with backslash escapes a backslash takes the next
\* character, and the first single quote left alone ends the literal.  The
\* result is the value read and the position of the closing quote (0 when the
\* text ends inside the literal).
RECURSIVE ReadLiteral(_, _, _, _, _)
ReadLiteral(text, i, acc, backslash, f) ==
    IF i > Len(text) THEN [val |-> acc, close |-> 0]
    ELSE IF backslash /\ Char(text, i) = "\\"
    THEN IF i + 1 > Len(text) THEN [val |-> acc, close |-> 0]
         ELSE ReadLiteral(text, i + 2,
                          acc \o (IF f = "mysql" THEN MysqlUnescape(Char(text, i + 1))
                                  ELSE Char(text, i + 1)),
                          backslash, f)
    ELSE IF Char(text, i) = "'"
    THEN IF i + 1 <= Len(text) /\ Char(text, i + 1) = "'"
         THEN ReadLiteral(text, i + 2, acc \o "'", backslash, f)
         ELSE [val |-> acc, close |-> i]
    ELSE ReadLiteral(text, i + 1, acc \o Char(text, i), backslash, f)

\* a string literal as the dialect's lexer reads it: MySQL and the E'' form of
\* Postgres take backslash escapes, the plain form of Postgres does not
ReadStringLiteral(text, f) ==
    IF f = "postgres" /\ StartsWith(text, "E'") THEN ReadLiteral(text, 3, "", TRUE, f)
    ELSE IF StartsWith(text, "'") THEN ReadLiteral(text, 2, "", f = "mysql", f)
    ELSE [val |-> "", close |-> 0]

(***************************************************************************)
(* SpecMap: the rows exec resolved with are mapped by one of toObject,     *)
(* toObjectArray, toMap, toMapArray and toSet.                             *)
(***************************************************************************)
MaxResultRows == 3

ResultRows ==
    {Obj(<<"name", "age">>, <<Str("John"), Num(20)>>),
     Obj(<<"name", "age">>, <<Str("Mary"), Num(36)>>),
     Obj(<<"name", "age">>, <<Str("Andrew"), Num(36)>>),
     Obj(<<"name", "age">>, <<Str("constructor"), Num(7)>>)}

KeySources ==
    {Str("age"), Str("name"), Arr(<<Str("age"), Str("name")>>), Arr(<<Str("name")>>),
     Fn("nameIndexCount"), Fn("parity")}

ValueSources ==
    {Undefined, Str("name"), Arr(<<Str("name"), Str("age")>>), Obj(<<"n">>, <<Str("name")>>),
     Fn("parity")}

MapInputs ==
    {[kind |-> "map", rows |-> rs, key |-> k, value |-> v] :
        rs \in UNION {[1..n -> ResultRows] : n \in 0..MaxResultRows},
        k \in KeySources, v \in ValueSources}

InitMap ==
    /\ flavor = "postgres"
    /\ convertCase = FALSE
    /\ op = "none"
    /\ input \in MapInputs
    /\ output = Pending
    /\ NothingRuns

ToObject ==
    /\ op = "none"
    /\ op' = "toObject"
    /\ output' = toObject(input.rows, input.key, input.value)
    /\ UNCHANGED <<config, input, runtime>>

ToObjectArray ==
    /\ op = "none"
    /\ op' = "toObjectArray"
    /\ output' = toObjectArray(input.rows, input.key, input.value)
    /\ UNCHANGED <<config, input, runtime>>

ToMap ==
    /\ op = "none"
    /\ op' = "toMap"
    /\ output' = toMap(input.rows, input.key, input.value)
    /\ UNCHANGED <<config, input, runtime>>

ToMapArray ==
    /\ op = "none"
    /\ op' = "toMapArray"
    /\ output' = toMapArray(input.rows, input.key, input.value)
    /\ UNCHANGED <<config, input, runtime>>

ToSet ==
    /\ op = "none"
    /\ op' = "toSet"
    /\ output' = toSet(input.rows, input.value)
    /\ UNCHANGED <<config, input, runtime>>

NextMap == ToObject \/ ToObjectArray \/ ToMap \/ ToMapArray \/ ToSet

SpecMap == InitMap /\ [][NextMap]_vars

(***************************************************************************)
(* SpecCell: one value goes through the transform pipeline twice, as the   *)
(* SET value of column a in updates() and as the cell of column a in       *)
(* rows(), each on a fresh buffer.                                         *)
(***************************************************************************)
CellValues ==
    {Num(1), Str("x"), Bool(TRUE), Null, Sym("b"), Var(Num(2)), TypedVar(Num(2), "int"),
     Arr(<<Str("+"), Sym("a"), Var(Num(1))>>), Obj(<<"b">>, <<Var(Num(3))>>)}

CellTransforms ==
    {Undefined, Bool(FALSE),
     Obj(<<"a">>, <<Bool(FALSE)>>), Obj(<<"a">>, <<Str("int")>>), Obj(<<"a">>, <<Fn("plusOne")>>),
     Obj(<<"z">>, <<Str("int")>>),
     Fn("wrap"), Fn("plusOne"), Fn("where"), Fn("same")}

CellInputs ==
    {[kind |-> "cell", value |-> v, transform |-> tr] : v \in CellValues, tr \in CellTransforms}

InitCell ==
    /\ flavor \in Flavors
    /\ convertCase \in BOOLEAN
    /\ op = "none"
    /\ input \in CellInputs
    /\ output = <<>>
    /\ NothingRuns

\* updates({a: value}, transform)
UpdatesValue ==
    /\ op = "none"
    /\ op' = "updates"
    /\ output' = <<updates(NewParts(SqlConfig, ""), Obj(<<"a">>, <<input.value>>),
                           input.transform)>>
    /\ UNCHANGED <<config, input, runtime>>

\* rows({a: value}, undefined, transform)
RowsCell ==
    /\ op = "updates"
    /\ op' = "rows"
    /\ output' = Append(output, rows(NewParts(SqlConfig, ""), Obj(<<"a">>, <<input.value>>),
                                     Undefined, input.transform))
    /\ UNCHANGED <<config, input, runtime>>

NextCell == UpdatesValue \/ RowsCell

SpecCell == InitCell /\ [][NextCell]_vars

(***************************************************************************)
(* SpecLike: a condition {name: RegExp} or {name: {$: RegExp}} is compiled *)
(* by expr on a fresh buffer, for every source over a small alphabet.      *)
(***************************************************************************)
MaxSourceLen == 3

SourceChars == {"a", "B", ".", "*", "%", "_", "^", "$"}

RECURSIVE SourcesUpTo(_)

SourcesUpTo(n) ==
    IF n = 0 THEN {""}
    ELSE SourcesUpTo(n - 1) \cup {s \o c : s \in SourcesUpTo(n - 1), c \in SourceChars}

\* sources with the other special characters, class escapes and lookarounds
ComplexSources ==
    {"a+", "(a)", "[aB]", "a|B", "a?", "a{2}", "\\d", "a\\w", "a\\b", "\\Sa", "(?=a)", "(?!a)",
     "(?:a)"}

\* new RegExp('') has the source (?:), so no source is empty
LikeInputs ==
    {[kind |-> "like", source |-> s, flags |-> f, inVar |-> w] :
        s \in (SourcesUpTo(MaxSourceLen) \ {""}) \cup ComplexSources,
        f \in {"", "i"}, w \in BOOLEAN}

InitLike ==
    /\ flavor \in Flavors
    /\ convertCase = FALSE
    /\ op = "none"
    /\ input \in LikeInputs
    /\ output = <<>>
    /\ NothingRuns

\* expr({name: re}) or expr({name: {$: re}})
ExprRegExp ==
    /\ op = "none"
    /\ op' = "expr"
    /\ output' = this_expr(NewParts(SqlConfig, ""),
                           Obj(<<"name">>,
                               <<IF input.inVar THEN Var(RegExp(input.source, input.flags))
                                 ELSE RegExp(input.source, input.flags)>>))
    /\ UNCHANGED <<config, input, runtime>>

NextLike == ExprRegExp

SpecLike == InitLike /\ [][NextLike]_vars

(***************************************************************************)
(* SpecReuse: the caller keeps one where-expression and builds a SELECT    *)
(* from it twice.  input.where is the value the caller's variable holds.   *)
(***************************************************************************)
RECURSIVE exprLeaves(_)

\* what the array or object e holds after expr(e) has compiled it: expr takes
\* the name off an operator-form array with e.shift(), and compiles the
\* operands that are expressions in the same way; the array built for an
\* operator-form value of an object is a new one, its operands are not
exprLeaves(e) ==
    LET each(s) == [i \in 1..Len(s) |-> exprLeaves(s[i])]
        \* a branch of CASE: cond[0] and cond[1] are compiled
        branch(c) ==
            IF c.k # "arr" THEN c
            ELSE Arr([i \in 1..Len(c.v) |-> IF i <= 2 THEN exprLeaves(c.v[i]) ELSE c.v[i]])
        operands(fn, rest) ==
            IF fn \in MaybeUnaryOperators /\ Len(rest) = 1 THEN each(rest)
            ELSE IF fn \in BinaryOperators /\ Len(rest) # 2 THEN rest
            ELSE IF fn \in Operators THEN each(rest)
            ELSE IF fn \in {"IN", "NOTIN", "NOT IN", "TYPE", "CAST", "EXTRACT"}
            THEN IF Len(rest) # 2 THEN rest
                 ELSE <<exprLeaves(rest[1]),
                        IF fn \in {"IN", "NOTIN", "NOT IN"} /\ rest[2].k = "arr"
                        THEN Arr(each(rest[2].v)) ELSE rest[2]>>
            ELSE IF fn = "CASE" THEN [i \in 1..Len(rest) |-> branch(rest[i])]
            ELSE each(rest)
        \* the value v of key name in the object form
        held(name, v) ==
            IF v.k = "arr" /\ Len(v.v) > 0 /\ v.v[1].k = "str"
            THEN Arr(<<v.v[1]>> \o Tail(operands(toUpperCase(v.v[1].v),
                                                 <<Sym(name)>> \o Tail(v.v))))
            ELSE v
    IN  IF e.k = "arr"
        THEN IF Len(e.v) = 0 \/ e.v[1].k # "str" THEN e
             ELSE Arr(operands(toUpperCase(e.v[1].v), Tail(e.v)))
        ELSE IF e.k = "obj"
        THEN Obj(e.keys, [i \in 1..Len(e.keys) |-> held(e.keys[i], e.vals[i])])
        ELSE e

\* conjunctive forms, operator forms at the top level, and operator forms
\* nested in either
ReusedConditions ==
    {Obj(<<"id">>, <<Var(Num(7))>>),
     Obj(<<"id", "name">>, <<Var(Num(7)), Str("who?")>>),
     Obj(<<"name">>, <<Null>>),
     Obj(<<"age">>, <<Arr(<<Str(">"), Var(Num(18))>>)>>),
     Obj(<<"age">>, <<Arr(<<Str("="), Arr(<<Str("+"), Sym("base"), Var(Num(1))>>)>>)>>),
     Obj(<<"id">>, <<Arr(<<Str("in"), Arr(<<Var(Num(1)), Var(Num(2))>>)>>)>>),
     Arr(<<Str("="), Sym("a"), Var(Num(1))>>),
     Arr(<<Str("-"), Sym("a")>>),
     Arr(<<Str("and"), Arr(<<Str("="), Sym("a"), Var(Num(1))>>),
           Arr(<<Str("in"), Sym("b"), Var(Arr(<<Num(2), Num(3)>>))>>)>>),
     Arr(<<Str("or"), Obj(<<"a">>, <<Var(Num(1))>>), Obj(<<"b">>, <<Arr(<<Str("<"), Var(Num(2))>>)>>)>>),
     Arr(<<Str("not"), Arr(<<Str("between"), Sym("a"), Var(Num(1)), Var(Num(9))>>)>>),
     Arr(<<Str("lower"), Str("lower"), Sym("a")>>),
     Arr(<<Str("coalesce"), Sym("a"), Var(Str("none"))>>)}

ReuseInputs ==
    {[kind |-> "reuse", table |-> <<Str("t")>>, where |-> w, options |-> o] :
        w \in ReusedConditions,
        o \in {SelectOptions, [SelectOptions EXCEPT !.limit = Var(Num(5))]}}

InitReuse ==
    /\ flavor \in Flavors
    /\ convertCase \in BOOLEAN
    /\ op = "none"
    /\ input \in ReuseInputs
    /\ output = <<>>
    /\ NothingRuns

\* select(where, options), and what it leaves in where
BuildFrom(step) ==
    /\ op' = step
    /\ output' = Append(output, call(NewParts(SqlConfig, ""), "select",
                                     <<input.table, input.where, input.options>>))
    /\ input' = [input EXCEPT !.where = exprLeaves(input.where)]
    /\ UNCHANGED <<config, runtime>>

BuildFirst == op = "none" /\ BuildFrom("first")

BuildAgain == op = "first" /\ BuildFrom("again")

NextReuse == BuildFirst \/ BuildAgain

SpecReuse == InitReuse /\ [][NextReuse]_vars

(***************************************************************************)
(* SpecKeyword: a name is written where keyword() guards it: as the type   *)
(* of TYPE and CAST, the unit of EXTRACT, the direction of ORDER BY and    *)
(* the name of a plain function.                                           *)
(***************************************************************************)
MaxKeywordLen == 3

KeywordChars == {"a", "Z", " ", "1", ";"}

RECURSIVE KeywordsUpTo(_)

KeywordsUpTo(n) ==
    IF n = 0 THEN {""}
    ELSE KeywordsUpTo(n - 1) \cup {s \o c : s \in KeywordsUpTo(n - 1), c \in KeywordChars}

KeywordPositions == {"TYPE", "CAST", "EXTRACT", "ORDER", "FUNCTION"}

KeywordInputs ==
    {[kind |-> "keyword", position |-> at, name |-> n] :
        at \in KeywordPositions, n \in KeywordsUpTo(MaxKeywordLen)}

InitKeyword ==
    /\ flavor \in Flavors
    /\ convertCase = FALSE
    /\ op = "none"
    /\ input \in KeywordInputs
    /\ output = Null
    /\ NothingRuns

\* expr(['type' | 'cast' | 'extract', Symbol('x'), name])
ExprKeyword ==
    /\ op = "none"
    /\ input.position \in {"TYPE", "CAST", "EXTRACT"}
    /\ op' = "expr"
    /\ output' = this_expr(NewParts(SqlConfig, ""),
                           Arr(<<Str(input.position), Sym("x"), Str(input.name)>>))
    /\ UNCHANGED <<config, input, runtime>>

\* expr([name, Symbol('x')])
ExprFunction ==
    /\ op = "none"
    /\ input.position = "FUNCTION"
    /\ op' = "expr"
    /\ output' = this_expr(NewParts(SqlConfig, ""), Arr(<<Str(input.name), Sym("x")>>))
    /\ UNCHANGED <<config, input, runtime>>

\* order([[Symbol('x'), name]])
OrderDirection ==
    /\ op = "none"
    /\ input.position = "ORDER"
    /\ op' = "order"
    /\ output' = order(NewParts(SqlConfig, ""), Arr(<<Arr(<<Sym("x"), Str(input.name)>>)>>))
    /\ UNCHANGED <<config, input, runtime>>

NextKeyword == ExprKeyword \/ ExprFunction \/ OrderDirection

SpecKeyword == InitKeyword /\ [][NextKeyword]_vars

(***************************************************************************)
(* SpecRaw: a statement is written as a tagged template, with plain        *)
(* arguments and with values(rows, fields), and then explained.            *)
(***************************************************************************)
RawArguments == {Num(123), Str("x"), Null, Bool(TRUE)}

RawRows ==
    {Arr(<<>>),
     Obj(<<"id", "userName">>, <<Num(1), Str("Jo")>>),
     Arr(<<Obj(<<"id">>, <<Num(1)>>), Obj(<<"id">>, <<Num(2)>>)>>),
     Arr(<<Obj(<<"id", "userName">>, <<Num(1), Str("Jo")>>),
           Obj(<<"id", "userName">>, <<Num(2), Str("Al")>>)>>),
     Arr(<<Arr(<<Num(1), Str("Jo")>>), Arr(<<Num(2), Str("Al")>>)>>)}

\* rows that are arrays come with the names of their columns
RawValues ==
    {sqlValues(r, fs) :
        r \in RawRows,
        fs \in {Undefined, Arr(<<Str("id")>>), Arr(<<Str("id"), Str("userName")>>)}}
    \ {sqlValues(Arr(<<Arr(<<Num(1), Str("Jo")>>), Arr(<<Num(2), Str("Al")>>)>>), Undefined)}

RawInputs ==
    {[kind |-> "raw", strings |-> <<"SELECT 1">>, args |-> <<>>]}
    \cup {[kind |-> "raw", strings |-> <<"SELECT * FROM users WHERE id = ", "">>,
           args |-> <<a>>] : a \in RawArguments}
    \cup {[kind |-> "raw", strings |-> <<"SELECT * FROM t WHERE a = ", " AND b = ", "">>,
           args |-> <<a, b>>] : a \in RawArguments, b \in RawArguments}
    \cup {[kind |-> "raw", strings |-> <<"INSERT INTO t ", "">>, args |-> <<v>>] :
              v \in RawValues}
    \cup {[kind |-> "raw", strings |-> <<"INSERT INTO t ", " RETURNING id + ", "">>,
           args |-> <<v, a>>] : v \in RawValues, a \in {Num(123)}}

InitRaw ==
    /\ flavor \in Flavors
    /\ convertCase \in BOOLEAN
    /\ op = "none"
    /\ input \in RawInputs
    /\ output = Null
    /\ NothingRuns

\* sql`...`
Tag ==
    /\ op = "none"
    /\ op' = "raw"
    /\ output' = apply(SqlConfig, input.strings, input.args)
    /\ UNCHANGED <<config, input, runtime>>

\* sql`...`.explain()
ExplainRaw ==
    /\ op = "raw"
    /\ op' = "explain"
    /\ output' = explain(output, Obj(<<>>, <<>>))
    /\ UNCHANGED <<config, input, runtime>>

NextRaw == Tag \/ ExplainRaw

SpecRaw == InitRaw /\ [][NextRaw]_vars

(***************************************************************************)
(* Claims about the escaper.                                               *)
(***************************************************************************)
\* C7: a string compiled as a bare literal (the value of the conjunctive form
\* {c: s}) is written inline, with no parameter, as one quoted literal that the
\* dialect reads back as exactly s: its closing quote is the last character of
\* the text, so no quote or backslash of s ends it early.  Postgres prefixes E
\* iff s holds a backslash and doubles quotes and backslashes; MySQL puts a
\* backslash before them.
C7_StringLiteralEscaped ==
    op = "string" =>
        LET head == identOf(output, "c") \o "="
            text == toString(output)
            lit == SubSeq(text, Len(head) + 1, Len(text))
            read == ReadStringLiteral(lit, flavor)
            s == input.v
            nq == Count(s, "'")
            nb == Count(s, "\\")
        IN  /\ Ok(output)
            /\ output.params = <<>>
            /\ StartsWith(text, head)
            /\ read.close = Len(lit)
            /\ read.val = s
            /\ (flavor = "postgres" => (StartsWith(lit, "E") <=> nb > 0))
            /\ Count(lit, "'") = 2 + (IF flavor = "postgres" THEN 2 * nq ELSE nq)
            /\ Count(lit, "\\") >= (IF flavor = "postgres" THEN 2 * nb ELSE 2 * nb + nq)

C7_Witness ==
    /\ op = "string"
    /\ Count(input.v, "'") > 0
    /\ Count(input.v, "\\") > 0
    /\ Ok(output)

\* C8: ident leaves * as it is; any other name is case-converted when
\* convertCase is set, cut at its dots, and each segment is put between the
\* dialect's quote character with every such character inside it doubled; the
\* other dialect's quote character is never added.
C8_IdentQuotesSegments ==
    op = "ident" =>
        LET n == IF convertCase THEN toSnakeCase(input.v) ELSE input.v
            q == QuoteChar(flavor)
            other == IF flavor = "mysql" THEN "\"" ELSE BQ
            segs == Split(n, ".")
        IN  IF input.v = "*" THEN output.v = "*"
            ELSE /\ output.v = Join([i \in 1..Len(segs) |-> QuotedSegment(segs[i], q)], ".")
                 /\ Count(output.v, other) = Count(n, other)
                 /\ Count(output.v, q) = 2 * Len(segs) + 2 * Count(n, q)

C8_Witness ==
    /\ op = "ident"
    /\ Count(input.v, ".") > 0
    /\ Count(input.v, QuoteChar(flavor)) > 0
    /\ convertCase
    /\ Count(input.v, "B") > 0

(***************************************************************************)
(* Claims about expr().                                                    *)
(***************************************************************************)
\* the placeholder of the k-th parameter
Placeholder(f, k) == IF f = "postgres" THEN "$" \o ToString(k) ELSE "?"

\* the text of a string without quotes or backslashes as a literal
PlainLiteral(v) == "'" \o v \o "'"

\* how many of the first n elements of seq are parameters
ParamsBefore(seq, n) == Cardinality({i \in 1..n : isVar(seq[i])})

\* what one value of a pair reads as: a placeholder, or the inline literal
PairValueText(v, k) ==
    CASE isVar(v)     -> Placeholder(flavor, k)
      [] v.k = "num"  -> ToString(v.v)
      [] v.k = "bool" -> IF flavor = "postgres" THEN "'t'" ELSE "true"
      [] v = Str("x") -> "'x'"
      [] OTHER        -> IF flavor = "postgres" THEN "'o''k'" ELSE "'o\\'k'"

\* a value of the pair that the amended statement speaks about: a string,
\* number or boolean literal, or a Parameter
PlainValue(v) == v.k \in {"num", "str", "bool", "var"}

PairParams(in) ==
    (IF isVar(in.x) THEN <<in.x.v>> ELSE <<>>) \o (IF isVar(in.y) THEN <<in.y.v>> ELSE <<>>)

RequiredOperands(fn) ==
    CASE fn \in {"IS NULL", "IS NOT NULL", "NOT"} -> 1
      [] fn \in {"BETWEEN", "NOT BETWEEN"}        -> 3
      [] OTHER                                      -> 2

\* the error names the operator, the expected count m and the supplied count n
IsArityError(err, fn, m, n) ==
    /\ err.kind = "Error"
    /\ Contains(err.message, "\"" \o fn \o "\"")
    /\ Contains(err.message, "exactly " \o ToString(m) \o " operands")
    /\ Contains(err.message, "(" \o ToString(n) \o " supplied)")

\* what operand i of the form reads as in the text
OperandText(operands, i) ==
    CASE isVar(operands[i])    -> Placeholder(flavor, ParamsBefore(operands, i))
      [] operands[i].k = "sym" -> ident(flavor, convertCase, operands[i].v)
      [] OTHER                 -> PlainLiteral(operands[i].v)

\* C10: a strictly binary operator with an operand count other than 2 fails
\* with an error naming the operator, 2 and the supplied count, unless it is
\* unary-capable and has one operand, which is written OP operand; an
\* operator with 2 operands, and an n-ary operator with any number, writes
\* the operands joined by the operator inside one pair of parentheses; the
\* special forms fail the same way unless they have their required count.
C10_OperatorArityChecked ==
    op = "form" =>
        LET fn == input.fn
            a == input.operands
            n == Len(a)
            r == output[1]
            texts == [i \in 1..n |-> OperandText(a, i)]
        IN  IF fn \in MaybeUnaryOperators /\ n = 1
            THEN Ok(r) /\ toString(r) = fn \o " " \o texts[1]
            ELSE IF fn \in BinaryOperators /\ n # 2
            THEN IsArityError(r.err, fn, 2, n)
            ELSE IF fn \in Operators
            THEN /\ Ok(r)
                 /\ toString(r) = "(" \o Join(texts, " " \o fn \o " ") \o ")"
                 /\ Len(r.params) = ParamsBefore(a, n)
            ELSE IF fn \in SpecialForms
            THEN IF n # RequiredOperands(fn)
                 THEN IsArityError(r.err, fn, RequiredOperands(fn), n)
                 ELSE ~Contains(IF Ok(r) THEN "" ELSE r.err.message, "requires exactly")
            ELSE TRUE

C10_Witness ==
    /\ op = "form"
    /\ input.fn = "%"
    /\ Len(input.operands) = 3
    /\ ~Ok(output[1])

\* the operand is an array, or a Parameter that wraps an array
IsList(b) == b.k = "arr" \/ (isVar(b) /\ b.v.k = "arr")

\* the elements of the list operand b
ListElements(b) == IF isVar(b) THEN b.v.v ELSE b.v

\* what element i of the list reads as, when `before` parameters precede the
\* list: every element of a wrapped array is a parameter
ListElementText(b, i, before) ==
    IF isVar(b) THEN Placeholder(flavor, before + i)
    ELSE CASE isVar(b.v[i])    -> Placeholder(flavor, before + ParamsBefore(b.v, i))
           [] b.v[i].k = "num" -> ToString(b.v[i].v)
           [] b.v[i].k = "sym" -> ident(flavor, convertCase, b.v[i].v)
           [] OTHER            -> PlainLiteral(b.v[i].v)

\* the parameters that the list contributes
ListParams(b) ==
    IF isVar(b) THEN b.v.v
    ELSE LET at == SelectSeq(b.v, LAMBDA el : isVar(el))
         IN  [i \in 1..Len(at) |-> at[i].v]

IsInForm == op = "form" /\ toUpperCase(input.fn) \in {"IN", "NOT IN", "NOTIN"}
                        /\ Len(input.operands) = 2

\* the text and the parameters of a IN (list) or a NOT IN (list)
InCompiled(r, a, b) ==
    /\ Ok(r)
    /\ toString(r) =
           OperandText(<<a>>, 1)
           \o (IF toUpperCase(input.fn) = "IN" THEN " IN (" ELSE " NOT IN (")
           \o Join([i \in 1..Len(ListElements(b)) |->
                       ListElementText(b, i, ParamsBefore(<<a>>, 1))], ",")
           \o ")"
    /\ r.params = (IF isVar(a) THEN <<a.v>> ELSE <<>>) \o ListParams(b)

\* C11: [in, a, b] and [not in, a, b] compile, to a IN (e1,...,en) with one
\* element or one placeholder and parameter per element of b in order, when b
\* is an array or a Parameter that wraps an array; for every other b the
\* compilation fails with an error about the type of b.
C11_InNeedsList ==
    IsInForm =>
        IF IsList(input.operands[2])
        THEN InCompiled(output[1], input.operands[1], input.operands[2])
        ELSE /\ ~Ok(output[1])
             /\ Contains(output[1].err.message, "should take array as its second argument")

IsCaseForm == op = "form" /\ toUpperCase(input.fn) = "CASE"

\* the conditions and results of the branches bs, in order
CaseOperands(bs) ==
    LET f[i \in 0..Len(bs)] == IF i = 0 THEN <<>> ELSE f[i - 1] \o bs[i].v
    IN  f[Len(bs)]

\* how many conditions and results precede branch i
CaseBefore(bs, i) == Len(CaseOperands(SubSeq(bs, 1, i - 1)))

\* a one-element branch stands first or last
CaseWellFormed(bs) ==
    \A i \in 1..Len(bs) : Len(bs[i].v) = 1 => i \in {1, Len(bs)}

\* what branch i reads as
CaseBranchText(bs, i) ==
    IF Len(bs[i].v) > 1
    THEN "WHEN " \o OperandText(CaseOperands(bs), CaseBefore(bs, i) + 1)
         \o " THEN " \o OperandText(CaseOperands(bs), CaseBefore(bs, i) + 2)
    ELSE (IF i = 1 THEN "" ELSE "ELSE ") \o OperandText(CaseOperands(bs), CaseBefore(bs, i) + 1)

\* the parameters among the conditions and results
CaseParams(bs) ==
    LET at == SelectSeq(CaseOperands(bs), LAMBDA el : isVar(el))
    IN  [i \in 1..Len(at) |-> at[i].v]

\* C12: [case, branch1, ..., branchN] compiles to CASE, the branches joined
\* by spaces (WHEN cond THEN result for a pair, the bare expression for a
\* one-element first branch, ELSE result for a one-element last branch) and
\* END, with the parameters of the conditions and results in that order and
\* no other; a one-element branch in any other place fails with the error
\* Invalid case format.
C12_CaseBranchesCompiled ==
    IsCaseForm =>
        IF CaseWellFormed(input.operands)
        THEN /\ Ok(output[1])
             /\ toString(output[1]) =
                    "CASE "
                    \o Join([i \in 1..Len(input.operands) |->
                                CaseBranchText(input.operands, i)], " ")
                    \o " END"
             /\ output[1].params = CaseParams(input.operands)
        ELSE /\ ~Ok(output[1])
             /\ output[1].err.message = "Invalid case format"

(***************************************************************************)
(* Claims about the statements.                                            *)
(***************************************************************************)
\* The placeholders of a statement as the dialect's lexer finds them, left
\* to right: outside string literals and quoted identifiers, $ and its digits
\* in the indexed dialect (the number is recorded), ? in the positional one
\* (0 is recorded).  The lexer reads one character at a time; its mode is
\* "sql", "str" (inside a literal without backslash escapes), "estr" (inside
\* one with them), "id" (inside a quoted identifier), "strq", "estrq", "idq"
\* (after a quote character that either is doubled or closes), "estrb" (after
\* a backslash); num is the number being read (-2 after a $ with no digit
\* yet, -1 outside a placeholder); last is the character before.
LexStart == [mode |-> "sql", num |-> -1, acc |-> <<>>, last |-> ""]

\* the placeholders found when the number being read ends
LexFlush(st) == IF st.num >= 0 THEN Append(st.acc, st.num) ELSE st.acc

\* character c read outside quotes
LexSql(st, c, f, mark) ==
    IF IsDigit(c) /\ st.num # -1
    THEN [st EXCEPT !.mode = "sql",
                    !.num = (IF st.num = -2 THEN 0 ELSE st.num * 10) + IndexOf(c, Digits) - 1,
                    !.last = c]
    ELSE LET acc == LexFlush(st)
         IN  CASE c = "'" ->
                    [mode |-> IF f = "mysql" \/ st.last = "E" THEN "estr" ELSE "str",
                     num |-> -1, acc |-> acc, last |-> c]
               [] c = QuoteChar(f) -> [mode |-> "id", num |-> -1, acc |-> acc, last |-> c]
               [] mark = "$" /\ c = "$" ->
                    [mode |-> "sql", num |-> -2, acc |-> acc, last |-> c]
               [] mark = "?" /\ c = "?" ->
                    [mode |-> "sql", num |-> -1, acc |-> Append(acc, 0), last |-> c]
               [] OTHER -> [mode |-> "sql", num |-> -1, acc |-> acc, last |-> c]

LexStep(st, c, f, mark) ==
    CASE st.mode = "sql"   -> LexSql(st, c, f, mark)
      [] st.mode = "str"   -> [st EXCEPT !.mode = IF c = "'" THEN "strq" ELSE "str", !.last = c]
      [] st.mode = "strq"  -> IF c = "'" THEN [st EXCEPT !.mode = "str", !.last = c]
                              ELSE LexSql(st, c, f, mark)
      [] st.mode = "estr"  -> [st EXCEPT !.mode = CASE c = "'"  -> "estrq"
                                                    [] c = "\\" -> "estrb"
                                                    [] OTHER    -> "estr",
                                         !.last = c]
      [] st.mode = "estrb" -> [st EXCEPT !.mode = "estr", !.last = c]
      [] st.mode = "estrq" -> IF c = "'" THEN [st EXCEPT !.mode = "estr", !.last = c]
                              ELSE LexSql(st, c, f, mark)
      [] st.mode = "id"    -> [st EXCEPT !.mode = IF c = QuoteChar(f) THEN "idq" ELSE "id",
                                         !.last = c]
      [] OTHER             -> IF c = QuoteChar(f) THEN [st EXCEPT !.mode = "id", !.last = c]
                              ELSE LexSql(st, c, f, mark)

\* the lexer run over text[lo..hi] from state st, by halves (the left half is
\* read before the right half starts; a mode is never empty)
RECURSIVE LexRange(_, _, _, _, _, _)
LexRange(text, lo, hi, st, f, mark) ==
    IF lo > hi THEN st
    ELSE IF lo = hi THEN LexStep(st, Char(text, lo), f, mark)
    ELSE LET mid == (lo + hi) \div 2
             left == LexRange(text, lo, mid, st, f, mark)
         IN  IF left.mode = "" THEN left ELSE LexRange(text, mid + 1, hi, left, f, mark)

\* the marks ($ with its digits, or ?) in a text quoted as dialect f quotes
MarksOf(text, f, mark) == LexFlush(LexRange(text, 1, Len(text), LexStart, f, mark))

PlaceholdersOf(text, f) == MarksOf(text, f, IF f = "postgres" THEN "$" ELSE "?")

\* C1: every statement that a builder returns has as many placeholders in its
\* text as its parameter vector has entries, and in the indexed dialect they
\* are numbered 1..n from left to right, so that the i-th placeholder binds
\* the i-th entry.
C1_PlaceholdersMatchParams ==
    (op = "built" /\ Ok(output)) =>
        LET ph == PlaceholdersOf(toString(output), flavor)
        IN  /\ Len(ph) = Len(output.params)
            /\ flavor = "postgres" => ph = [i \in 1..Len(ph) |-> i]

\* C1, for the statements whose condition is not the operator form of ? in
\* the positional dialect: the only statements of SelectInputs, UpdateInputs
\* and DeleteInputs that break C1
C1_PlaceholdersMatchWithoutQuestionOperators ==
    (input.kind # "insert" /\ input.where.k = "arr" /\ input.where.v[1] = Str("?")
     /\ flavor = "mysql")
    \/ C1_PlaceholdersMatchParams

\* the statement was built from a table list whose first entry is a Query
FromQuery ==
    /\ op = "built"
    /\ input.table[1].k = "obj"
    /\ Get(input.table[1], "table").k = "query"

\* the chunks of the outer statement with the chunks c of the inner one
\* spliced in parentheses between head and tail
Spliced(head, c, tail) ==
    IF Len(c) = 1 THEN <<head \o "(" \o c[1] \o ")" \o tail>>
    ELSE <<head \o "(" \o c[1]>> \o SubSeq(c, 2, Len(c) - 1) \o <<c[Len(c)] \o ")" \o tail>>

\* C13: a Query in the table position is spliced in parentheses, its
\* parameters taking their place in the parameter vector before those of the
\* clauses that follow, so that the placeholders of the outer statement are
\* numbered consecutively.
C13_QueryInTablePositionSpliced ==
    FromQuery =>
        /\ Ok(output)
        /\ output.params = Get(input.table[1], "table").parts.params
                           \o (IF Truthy(input.where) THEN <<Num(7)>> ELSE <<>>)
        /\ toString(output) =
               toString(QueryParts(SqlConfig,
                   Spliced("SELECT * FROM ", Get(input.table[1], "table").parts.chunks,
                           " AS " \o ident(flavor, convertCase, "s")
                           \o (IF Truthy(input.where)
                               THEN " WHERE " \o ident(flavor, convertCase, "id") \o "="
                               ELSE ""))
                   \o (IF Truthy(input.where) THEN <<"">> ELSE <<>>),
                   output.params))
        /\ PlaceholdersOf(toString(output), flavor) = [i \in 1..Len(output.params) |->
                                                          IF flavor = "postgres" THEN i ELSE 0]

\* the statement was built by select from a plain table list
IsSelect ==
    /\ op = "built"
    /\ input.kind = "select"
    /\ \A i \in 1..Len(input.table) : input.table[i].k = "str"

\* the fragment q written after the fragment p
Then(p, q) ==
    QueryParts(p.sql,
               SubSeq(p.chunks, 1, Len(p.chunks) - 1)
               \o <<p.chunks[Len(p.chunks)] \o q.chunks[1]>> \o Tail(q.chunks),
               p.params \o q.params)

Nothing == NewParts(SqlConfig, "")

\* the clauses of a select, each compiled on its own and written in the
\* order of the list when present(option) holds
ClausesInOrder(in, present(_)) ==
    LET o == in.options
        clause(on, q) == IF on THEN q ELSE Nothing
    IN  Then(Then(Then(Then(Then(Then(Then(Then(Then(
            NewParts(SqlConfig, "SELECT "),
            clause(present(o.distinct),
                   IF o.distinct = Bool(TRUE) THEN NewParts(SqlConfig, "DISTINCT ")
                   ELSE append(exprs(NewParts(SqlConfig, "DISTINCT ON ("), o.distinct),
                               <<") ">>))),
            fields(Nothing, o.fields)),
            clause(Len(in.table) # 0, table(NewParts(SqlConfig, " FROM "), in.table))),
            clause(present(in.where), where(NewParts(SqlConfig, " WHERE "), in.where))),
            clause(present(o.group), exprs(NewParts(SqlConfig, " GROUP BY "), o.group))),
            clause(present(o.having), where(NewParts(SqlConfig, " HAVING "), o.having))),
            clause(present(o.order), order(NewParts(SqlConfig, " ORDER BY "), o.order))),
            clause(present(o.limit), value(NewParts(SqlConfig, " LIMIT "), o.limit, FALSE))),
            clause(present(o.offset), value(NewParts(SqlConfig, " OFFSET "), o.offset, FALSE)))

\* an option the caller supplied
Supplied(v) == v.k \notin {"undef", "null"}

\* C14: select writes SELECT, DISTINCT [ON], the fields, FROM, WHERE,
\* GROUP BY, HAVING, ORDER BY, LIMIT, OFFSET in this order, a clause being
\* written if and only if its option was supplied (FROM: the table list is
\* not empty), and the parameters are those of the clauses in the same order.
C14_ClausesInOrderIffSupplied ==
    IsSelect =>
        /\ Ok(output)
        /\ output.chunks = ClausesInOrder(input, Supplied).chunks
        /\ output.params = ClausesInOrder(input, Supplied).params

\* the same with a clause written if and only if its option is truthy
C14_ClausesInOrderIffTruthy ==
    IsSelect =>
        /\ Ok(output)
        /\ output.chunks = ClausesInOrder(input, Truthy).chunks
        /\ output.params = ClausesInOrder(input, Truthy).params

IsDelete == op = "built" /\ input.kind = "delete"

\* the fragments q[from..Len(q)] written one after the other with sep between
RECURSIVE Separated(_, _, _)
Separated(q, from, sep) ==
    IF from > Len(q) THEN Nothing
    ELSE IF from = Len(q) THEN q[from]
    ELSE Then(Then(q[from], NewParts(SqlConfig, sep)), Separated(q, from + 1, sep))

\* a joined table as DELETE ... USING lists it: the name and its alias
UsingEntry(t) ==
    NewParts(SqlConfig,
             ident(flavor, convertCase, Get(t, "table").v)
             \o (IF Truthy(Get(t, "as"))
                 THEN " AS " \o ident(flavor, convertCase, Get(t, "as").v) ELSE ""))

\* the conditions of a delete over joined tables: every ON in join order,
\* then the condition of the delete
DeleteConditions(in) ==
    [i \in 1..(Len(in.table) - 1) |-> where(Nothing, Get(in.table[i + 1], "on"))]
    \o (IF Truthy(in.where) THEN <<where(Nothing, in.where)>> ELSE <<>>)

DeleteExpected(in) ==
    IF Len(in.table) = 1
    THEN Then(NewParts(SqlConfig, "DELETE FROM " \o ident(flavor, convertCase, in.table[1].v)),
              IF Truthy(in.where) THEN where(NewParts(SqlConfig, " WHERE "), in.where)
              ELSE Nothing)
    ELSE Then(Then(Then(Then(
             NewParts(SqlConfig, "DELETE FROM " \o ident(flavor, convertCase, in.table[1].v)
                                 \o " USING "),
             Separated([i \in 1..(Len(in.table) - 1) |-> UsingEntry(in.table[i + 1])], 1, ",")),
             NewParts(SqlConfig, " WHERE (")),
             Separated(DeleteConditions(in), 1, " AND ")),
             NewParts(SqlConfig, ")"))

\* C15: delete over a handle with joined tables writes DELETE FROM the first
\* table USING the joined tables with their aliases, separated by commas,
\* then WHERE and in parentheses the AND of every ON condition in join order
\* and of the delete condition, with the parameters in that order; over one
\* table it writes DELETE FROM the table and the WHERE clause if there is a
\* condition.
C15_DeleteUsingJoinedTables ==
    IsDelete =>
        /\ Ok(output)
        /\ output.chunks = DeleteExpected(input).chunks
        /\ output.params = DeleteExpected(input).params

\* the single-table half of C15
C15_DeleteSingleTable ==
    (IsDelete /\ Len(input.table) = 1) =>
        /\ Ok(output)
        /\ output.chunks = DeleteExpected(input).chunks
        /\ output.params = DeleteExpected(input).params

\* the rows of an insert as the caller counts them
GivenRows(rs) ==
    CASE rs.k \in {"arr", "gen", "genfn"} -> rs.v
      [] rs.k = "num" -> [i \in 1..rs.v |-> Undefined]
      [] OTHER -> <<rs>>

\* the column list: the fields option, or the keys of the first row
Columns(in) ==
    IF in.options.fields.k = "arr"
    THEN [i \in 1..Len(in.options.fields.v) |-> in.options.fields.v[i].v]
    ELSE GivenRows(in.rows)[1].keys

\* an insert of N >= 1 rows with the default transform whose columns are known
IsRowInsert ==
    /\ op = "built"
    /\ input \in RowInputs
    /\ Len(GivenRows(input.rows)) >= 1
    /\ input.rows.k = "num" => input.options.fields.k = "arr"

\* the keys a row has
Keys(r) == IF r.k = "obj" THEN {r.keys[i] : i \in 1..Len(r.keys)} ELSE {}

\* the parameter of the cell of column c in row r
CellParam(r, c) ==
    IF r.k = "undef" THEN Null
    ELSE IF isVar(Get(r, c)) THEN Get(r, c).v ELSE Get(r, c)

RECURSIVE Commas(_, _)
Commas(names, from) ==
    IF from > Len(names) THEN ""
    ELSE ident(flavor, convertCase, names[from])
         \o (IF from < Len(names) THEN "," ELSE "") \o Commas(names, from + 1)

IsEmptyInsert ==
    /\ op = "built"
    /\ input.kind = "insert"
    /\ Len(GivenRows(input.rows)) = 0

\* C17: an insert of no rows (an empty array, the count 0, a generator that
\* yields nothing) writes (SELECT NULL WHERE 1=0) where the column list and
\* VALUES would be, writes no VALUES keyword, and adds no parameter.
C17_EmptyRowsSelectNothing ==
    IsEmptyInsert =>
        /\ Ok(output) =>
               /\ StartsWith(output.chunks[1],
                             (IF flavor = "mysql" /\ input.options.conflict = Bool(FALSE)
                              THEN "INSERT IGNORE INTO " ELSE "INSERT INTO ")
                             \o ident(flavor, convertCase, "t") \o "(SELECT NULL WHERE 1=0)")
               /\ \A i \in 1..Len(output.chunks) : ~Contains(output.chunks[i], "VALUES")
        /\ input \in RowInputs =>
               /\ Ok(output)
               /\ output.chunks = <<"INSERT INTO " \o ident(flavor, convertCase, "t")
                                    \o "(SELECT NULL WHERE 1=0)">>
               /\ output.params = <<>>

\* the count 0 and an empty generator have been compiled
C17_Witness ==
    /\ IsEmptyInsert
    /\ Ok(output)
    /\ input.rows.k \in {"num", "gen"}
    /\ Contains(toString(output), "(SELECT NULL WHERE 1=0)")
    /\ output.params = <<>>

IsUpsert == op = "built" /\ input \in UpsertInputs

\* the names of the strategy table
KnownStrategies == {"UPDATE", "FILL", "INC", "DEC", "ADD", "SUB", "MAX", "MIN"}

\* the values of the conflict spec c that are markers of no strategy
UnknownRules(c) ==
    {i \in 1..Len(c.keys) :
        c.vals[i].k = "re" /\ toUpperCase(c.vals[i].source) \notin KnownStrategies}

\* every strategy marker of the conflict spec c is in the table
KnownRules(c) == UnknownRules(c) = {}

\* INSERT INTO "users"("id","name") VALUES ($1,$2) for the row of UpsertInputs
RowsInserted(head) ==
    QueryParts(SqlConfig,
               <<head \o ident(flavor, convertCase, "users") \o "("
                 \o ident(flavor, convertCase, "id") \o "," \o ident(flavor, convertCase, "name")
                 \o ") VALUES (", ",", ")">>,
               <<Num(100), Str("John")>>)

\* C18: in the indexed dialect an insert with exactly one of unique and
\* conflict fails with an error about the options, and nothing of the
\* statement has been compiled when it fails; in the positional dialect an
\* insert with a conflict spec and no unique is built and has the ON
\* DUPLICATE KEY UPDATE clause after its rows.
C18_UpsertOptionsValidated ==
    IsUpsert =>
        /\ (flavor = "postgres"
            /\ (input.options.unique.k = "undef") # (input.options.conflict.k = "undef"))
           => /\ ~Ok(output)
              /\ output.err.kind = "Error"
              /\ Contains(output.err.message, "\"conflict\"")
              /\ Contains(output.err.message, "\"unique\"")
              /\ output.chunks = <<"">>
              /\ output.params = <<>>
        /\ (flavor = "mysql" /\ input.options.unique.k = "undef"
            /\ input.options.conflict.k = "obj" /\ KnownRules(input.options.conflict))
           => /\ Ok(output)
              /\ SubSeq(output.chunks, 1, 2) = SubSeq(RowsInserted("INSERT INTO ").chunks, 1, 2)
              /\ StartsWith(output.chunks[3], ") ON DUPLICATE KEY UPDATE ")

\* an insert with a conflict spec and no unique has been tried: it failed in
\* the indexed dialect, or was built with its clause in the positional one
C18_Witness ==
    /\ IsUpsert
    /\ \/ flavor = "postgres" /\ ~Ok(output) /\ input.options.unique.k = "undef"
          /\ input.options.conflict.k = "obj"
       \/ flavor = "mysql" /\ Ok(output) /\ input.options.unique.k = "undef"
          /\ input.options.conflict.k = "obj"
          /\ Contains(toString(output), " ON DUPLICATE KEY UPDATE ")

\* the names in the unique option of the input
UniqueColumns == [i \in 1..Len(input.options.unique.v) |-> input.options.unique.v[i].v]

\* the statement has a clause that updates the row in conflict
UpdatesOnConflict ==
    \E i \in 1..Len(output.chunks) :
        \/ Contains(output.chunks[i], "DO UPDATE")
        \/ Contains(output.chunks[i], "ON DUPLICATE KEY UPDATE")

\* C19: with conflict: false the positional dialect writes INSERT IGNORE
\* INTO and no ON DUPLICATE KEY clause, the indexed dialect writes ON
\* CONFLICT (the escaped unique columns) DO NOTHING after the rows; the
\* parameters are those of the rows alone; and a statement has DO UPDATE or
\* ON DUPLICATE KEY UPDATE only if conflict is a conflict spec.
C19_ConflictFalseIgnores ==
    /\ (IsUpsert /\ input.options.conflict = Bool(FALSE) /\ flavor = "mysql")
       => /\ Ok(output)
          /\ output.chunks = RowsInserted("INSERT IGNORE INTO ").chunks
          /\ output.params = <<Num(100), Str("John")>>
    /\ (IsUpsert /\ input.options.conflict = Bool(FALSE) /\ flavor = "postgres"
        /\ input.options.unique.k = "arr")
       => /\ Ok(output)
          /\ output.chunks =
                 Then(RowsInserted("INSERT INTO "),
                      NewParts(SqlConfig, " ON CONFLICT (" \o Commas(UniqueColumns, 1)
                                          \o ") DO NOTHING")).chunks
          /\ output.params = <<Num(100), Str("John")>>
    /\ (op = "built" /\ input.kind = "insert" /\ UpdatesOnConflict)
       => input.options.conflict.k \in {"obj", "str"}

\* conflict: false with two unique columns has been compiled in the indexed
\* dialect, with the conversion of names
C19_Witness ==
    /\ IsUpsert
    /\ input.options.conflict = Bool(FALSE)
    /\ flavor = "postgres"
    /\ convertCase
    /\ input.options.unique.k = "arr"
    /\ Len(input.options.unique.v) = 2
    /\ Ok(output)
    /\ EndsWith(toString(output), " ON CONFLICT (\"id\",\"user_name\") DO NOTHING")

\* what a strategy sets the column col of table tbl to; new is the value the
\* insert proposed
StrategyText(rule, col, tbl, new) ==
    CASE rule = "UPDATE" -> col \o "=" \o new
      [] rule = "FILL"   -> col \o "=COALESCE(" \o tbl \o "." \o col \o ", " \o new \o ")"
      [] rule = "INC"    -> col \o "=" \o tbl \o "." \o col \o "+1"
      [] rule = "DEC"    -> col \o "=" \o tbl \o "." \o col \o "-1"
      [] rule = "ADD"    -> col \o "=" \o tbl \o "." \o col \o "+" \o new
      [] rule = "SUB"    -> col \o "=" \o tbl \o "." \o col \o "-" \o new
      [] rule = "MAX"    -> col \o "=GREATEST(" \o tbl \o "." \o col \o ", " \o new \o ")"
      [] rule = "MIN"    -> col \o "=LEAST(" \o tbl \o "." \o col \o ", " \o new \o ")"

\* the value the insert proposed for col
NewValue(col) == IF flavor = "postgres" THEN "EXCLUDED." \o col ELSE "VALUES(" \o col \o ")"

\* the assignment the conflict spec c makes to its i-th column
Assignment(c, i) ==
    IF c.vals[i].k = "re"
    THEN NewParts(SqlConfig,
                  StrategyText(toUpperCase(c.vals[i].source),
                               ident(flavor, convertCase, c.keys[i]),
                               ident(flavor, convertCase, "users"),
                               NewValue(ident(flavor, convertCase, c.keys[i]))))
    ELSE expr(NewParts(SqlConfig, ident(flavor, convertCase, c.keys[i]) \o "="), c.vals[i])

\* an insert with a conflict spec that passes the checks of its options
IsConflictSpec ==
    /\ IsUpsert
    /\ input.options.conflict.k = "obj"
    /\ flavor = "postgres" => input.options.unique.k = "arr"

UpsertHead ==
    IF flavor = "mysql" THEN " ON DUPLICATE KEY UPDATE "
    ELSE " ON CONFLICT (" \o Commas(UniqueColumns, 1) \o ") DO UPDATE SET "

UpsertExpected(c) ==
    Then(Then(RowsInserted("INSERT INTO "), NewParts(SqlConfig, UpsertHead)),
         Separated([i \in 1..Len(c.keys) |-> Assignment(c, i)], 1, ","))

\* C20: every column of a conflict spec is set as its strategy says, the
\* strategy being matched whatever its case: update, fill, inc, dec, add,
\* sub, max, min, with EXCLUDED.col (indexed dialect) or VALUES(col)
\* (positional dialect) for the new value and no parameter; a column given an
\* expression is set to the compiled expression, whose parameters follow
\* those of the rows; a marker of any other name fails with the error
\* Unknown conflict rule that names it.
C20_ConflictStrategies ==
    IsConflictSpec =>
        IF KnownRules(input.options.conflict)
        THEN /\ Ok(output)
             /\ output.chunks = UpsertExpected(input.options.conflict).chunks
             /\ output.params = UpsertExpected(input.options.conflict).params
             /\ SubSeq(output.params, 1, 2) = <<Num(100), Str("John")>>
        ELSE /\ ~Ok(output)
             /\ output.err.kind = "Error"
             /\ \E i \in UnknownRules(input.options.conflict) :
                    /\ \A j \in UnknownRules(input.options.conflict) : i <= j
                    /\ output.err.message
                           = "Unknown conflict rule: " \o input.options.conflict.vals[i].source

\* a strategy written in capitals and an expression with a parameter have
\* been compiled in one spec
C20_Witness ==
    /\ IsConflictSpec
    /\ Ok(output)
    /\ flavor = "postgres"
    /\ ~convertCase
    /\ input.options.conflict.keys = <<"userName", "id">>
    /\ output.params = <<Num(100), Str("John"), Str("!")>>
    /\ EndsWith(toString(output),
                " DO UPDATE SET \"userName\"=(\"userName\" || $3),\"id\"=\"users\".\"id\"-EXCLUDED.\"id\"")

\* an unknown strategy has been refused
C20_WitnessUnknown ==
    /\ IsConflictSpec
    /\ ~Ok(output)
    /\ output.err.message = "Unknown conflict rule: merge"

(***************************************************************************)
(* Claims about the methods that map rows.                                 *)
(***************************************************************************)
\* the key the key source of the input gives rows[i]: the column, the result
\* of the function, or the columns joined by _
KeyAt(in, i) == keyOfRow(in.key, in.rows, i)

\* the same as a property name, for the methods that return an object
NameAt(in, i) == JsString(KeyAt(in, i))

\* the projection of rows[i] by the value source of the input
ProjectionAt(in, i) == mapFn(in.value, in.rows[i], i - 1, in.rows)

\* the projections of the rows i, in input order, for which has(i) holds
ProjectionsWhere(in, has(_)) ==
    LET f[i \in 0..Len(in.rows)] ==
            IF i = 0 THEN <<>>
            ELSE IF has(i) THEN Append(f[i - 1], ProjectionAt(in, i)) ELSE f[i - 1]
    IN  f[Len(in.rows)]

\* the sum of the lengths of the arrays in groups
TotalLength(groups) ==
    LET f[i \in 0..Len(groups)] == IF i = 0 THEN 0 ELSE f[i - 1] + Len(groups[i].v)
    IN  f[Len(groups)]

\* the entries of a grouped result are the distinct keys at(i), each with the
\* projections of its rows in input order
GroupedBy(in, result, at(_, _)) ==
    /\ {result.keys[j] : j \in 1..Len(result.keys)} = {at(in, i) : i \in 1..Len(in.rows)}
    /\ \A j, l \in 1..Len(result.keys) : result.keys[j] = result.keys[l] => j = l
    /\ \A j \in 1..Len(result.keys) :
           /\ result.vals[j].k = "arr"
           /\ result.vals[j].v
                  = ProjectionsWhere(in, LAMBDA i : at(in, i) = result.keys[j])
    /\ TotalLength(result.vals) = Len(in.rows)

\* the keys of a Map are in the order in which the rows first give them
FirstOccurrenceOrder(in, result) ==
    \A j, l \in 1..Len(result.keys) :
        j < l =>
            \E i \in 1..Len(in.rows) :
                /\ KeyAt(in, i) = result.keys[j]
                /\ \A h \in 1..i : KeyAt(in, h) # result.keys[l]

\* C21: toMapArray(key, value) and toObjectArray(key, value) return one
\* entry per distinct key; its array holds the projections of exactly the
\* rows with that key, in input order; the lengths of the groups add up to
\* the number of rows; the keys of the Map are in order of first occurrence.
C21_GroupsPartitionRows ==
    /\ op = "toMapArray" =>
           /\ output.state = "fulfilled"
           /\ GroupedBy(input, output.value, KeyAt)
           /\ FirstOccurrenceOrder(input, output.value)
    /\ op = "toObjectArray" =>
           /\ output.state = "fulfilled"
           /\ GroupedBy(input, output.value, NameAt)

\* the same for a key source that is a column or a function, and rows whose
\* keys are not names of Object.prototype
C21_GroupsPartitionRowsOwnNames ==
    (/\ input.key.k # "arr"
     /\ \A i \in 1..Len(input.rows) : NameAt(input, i) \notin InheritedNames)
    => C21_GroupsPartitionRows

\* the entries of a keyed result are the distinct keys at(i), each with the
\* projection of the last row that has the key
LastRowWins(in, result, at(_, _)) ==
    /\ {result.keys[j] : j \in 1..Len(result.keys)} = {at(in, i) : i \in 1..Len(in.rows)}
    /\ \A j, l \in 1..Len(result.keys) : result.keys[j] = result.keys[l] => j = l
    /\ \A j \in 1..Len(result.keys) :
           \E i \in 1..Len(in.rows) :
               /\ at(in, i) = result.keys[j]
               /\ \A h \in (i + 1)..Len(in.rows) : at(in, h) # result.keys[j]
               /\ result.vals[j] = ProjectionAt(in, i)

\* the members of a Set are the projections of the rows, a value that is
\* projected from several rows being held once
EachValueOnce(in, members) ==
    /\ {members[j] : j \in 1..Len(members)}
           = {ProjectionAt(in, i) : i \in 1..Len(in.rows)}
    /\ \A j, l \in 1..Len(members) :
           (IsPrimitive(members[j]) /\ members[j] = members[l]) => j = l
    /\ (\A i \in 1..Len(in.rows) : ~IsPrimitive(ProjectionAt(in, i)))
           => Len(members) = Len(in.rows)

\* C22: toObject(key, value) and toMap(key, value) return exactly one entry
\* per distinct key, holding the projection of the last row with that key;
\* toSet(value) holds each distinct projected value once.
C22_LastDuplicateWins ==
    /\ op = "toObject" =>
           /\ output.state = "fulfilled"
           /\ LastRowWins(input, output.value, NameAt)
    /\ op = "toMap" =>
           /\ output.state = "fulfilled"
           /\ LastRowWins(input, output.value, KeyAt)
    /\ op = "toSet" =>
           /\ output.state = "fulfilled"
           /\ EachValueOnce(input, output.value.v)

\* the same for a key source that is a column or a function
C22_LastDuplicateWinsPlainKey ==
    input.key.k # "arr" => C22_LastDuplicateWins

\* the key C23 gives rows[i]: the value of the column, the result of the
\* function called with (row, index, rows), or the values of the columns
\* joined by _ in the order of the array
ExpectedKey(in, i) ==
    CASE in.key.k = "str" -> Get(in.rows[i], in.key.v)
      [] in.key.k = "fn"  -> ApplyRowFn(in.key, in.rows[i], i - 1, in.rows)
      [] in.key.k = "arr" ->
           Str(JoinUnderscore([c \in 1..Len(in.key.v) |-> Get(in.rows[i], in.key.v[c].v)]))

ExpectedName(in, i) == JsString(ExpectedKey(in, i))

\* the keys of the result are the keys at(i) of the rows
KeysAre(in, result, at(_, _)) ==
    {result.keys[j] : j \in 1..Len(result.keys)} = {at(in, i) : i \in 1..Len(in.rows)}

\* C23: in toObject, toObjectArray, toMap and toMapArray the key of a row is
\* its value of the column for a string key source, the result of the call
\* with (row, index, allRows) for a function, and its values of the columns
\* joined by _ in array order for an array of column names.
C23_KeySources ==
    /\ op \in {"toObject", "toObjectArray"} =>
           /\ output.state = "fulfilled"
           /\ KeysAre(input, output.value, ExpectedName)
    /\ op \in {"toMap", "toMapArray"} =>
           /\ output.state = "fulfilled"
           /\ KeysAre(input, output.value, ExpectedKey)

\* the same where the method is toObject or the key source is not an array,
\* and the keys are not names of Object.prototype
C23_KeySourcesOutsideLoops ==
    (/\ op = "toObject" \/ input.key.k # "arr"
     /\ \A i \in 1..Len(input.rows) : ExpectedName(input, i) \notin InheritedNames)
    => C23_KeySources

(***************************************************************************)
(* Claims about the transform pipeline.                                    *)
(***************************************************************************)
\* the chunks c without the text head before the first and tail after the last
Between(c, head, tail) ==
    IF Len(c) = 1
    THEN <<SubSeq(c[1], Len(head) + 1, Len(c[1]) - Len(tail))>>
    ELSE <<SubSeq(c[1], Len(head) + 1, Len(c[1]))>> \o SubSeq(c, 2, Len(c) - 1)
         \o <<SubSeq(c[Len(c)], 1, Len(c[Len(c)]) - Len(tail))>>

\* what updates() wrote after "a=" and what rows() wrote between "(a) VALUES ("
\* and ")"
SetValueChunks == Between(output[1].chunks, ident(flavor, convertCase, "a") \o "=", "")

InsertCellChunks ==
    Between(output[2].chunks, "(" \o ident(flavor, convertCase, "a") \o ") VALUES (", ")")

\* C24: under every transform option update compiles a SET value to the text
\* and the parameters insert compiles for a cell with the same value; what a
\* global function transform returns is compiled as an expression in both.
C24_SetValueSameAsInsertCell ==
    op = "rows" =>
        /\ Ok(output[1]) <=> Ok(output[2])
        /\ Ok(output[1]) =>
               /\ SetValueChunks = InsertCellChunks
               /\ output[1].params = output[2].params
        /\ input.transform.k = "fn" =>
               output[2] = append(expr(NewParts(SqlConfig,
                                                "(" \o ident(flavor, convertCase, "a")
                                                \o ") VALUES ("),
                                       ApplyFn(input.transform, <<input.value>>)),
                                  <<")">>)

\* the same where the transform is not a global function
C24_SetValueSameAsInsertCellNoGlobalFn ==
    input.transform.k # "fn" => C24_SetValueSameAsInsertCell

(***************************************************************************)
(* Claims about regular expressions in conditions.                         *)
(***************************************************************************)
SpecialChars == {"^", "$", "(", ")", "[", "]", "{", "}", "?", "+", "*", "|"}

\* the source without its leading ^ and its trailing $
Unanchored(source) ==
    LET tailCut(s) == IF EndsWith(s, "$") THEN SubSeq(s, 1, Len(s) - 1) ELSE s
    IN  tailCut(IF StartsWith(source, "^") THEN SubSeq(source, 2, Len(source)) ELSE source)

RECURSIVE OnlyWildcards(_)

\* s is made of literal characters, . and .* only
OnlyWildcards(s) ==
    \/ s = ""
    \/ StartsWith(s, ".*") /\ OnlyWildcards(SubSeq(s, 3, Len(s)))
    \/ ~StartsWith(s, ".*") /\ Char(s, 1) \notin SpecialChars \cup {"\\"}
           /\ OnlyWildcards(SubSeq(s, 2, Len(s)))

RECURSIVE AsLike(_)

\* s read from the left: .* is %, . is _, a literal % or _ gets a backslash
AsLike(s) ==
    IF s = "" THEN ""
    ELSE IF StartsWith(s, ".*") THEN "%" \o AsLike(SubSeq(s, 3, Len(s)))
    ELSE IF Char(s, 1) = "." THEN "_" \o AsLike(SubSeq(s, 2, Len(s)))
    ELSE IF Char(s, 1) \in {"%", "_"} THEN "\\" \o Char(s, 1) \o AsLike(SubSeq(s, 2, Len(s)))
    ELSE Char(s, 1) \o AsLike(SubSeq(s, 2, Len(s)))

\* the LIKE pattern of a source: % at an end that has no anchor and no .*
LikePatternOf(source) ==
    (IF ~StartsWith(source, "^") /\ ~StartsWith(Unanchored(source), ".*") THEN "%" ELSE "")
        \o AsLike(Unanchored(source))
        \o (IF ~EndsWith(source, "$") /\ ~EndsWith(Unanchored(source), ".*") THEN "%" ELSE "")

\* the left side and the operator of the LIKE match
LikeHead(col) ==
    IF input.flags = "" THEN col \o " LIKE "
    ELSE IF flavor = "postgres" THEN col \o " ILIKE "
    ELSE "LOWER(" \o col \o ") LIKE "

\* the left side and the native operator
NativeHead(col) ==
    IF flavor = "postgres" THEN col \o (IF input.flags = "" THEN " ~ " ELSE " ~* ")
    ELSE col \o " REGEXP "

\* the buffer holds head and then the pattern, as a literal or as a parameter
MatchesAgainst(head, pattern) ==
    /\ Ok(output)
    /\ IF input.inVar
       THEN output.chunks = <<head, "">> /\ output.params = <<Str(pattern)>>
       ELSE /\ output.chunks = <<head \o (IF flavor = "postgres"
                                              THEN escapePostgresString(pattern)
                                              ELSE escapeMysqlString(pattern))>>
            /\ output.params = <<>>

\* C25: a RegExp condition whose source has only literal characters, . and .*
\* between optional anchors is a LIKE match (ILIKE in postgres, LOWER(col) LIKE
\* the lowercased pattern in mysql, for flag i) against the pattern with the
\* anchors removed, % and _ escaped, .* as % and . as _, and a % at each end
\* that has neither an anchor nor a wildcard already; any other source is a
\* match with the native operator of the dialect.
C25_SimpleSourceIsLike ==
    op = "expr" =>
        IF OnlyWildcards(Unanchored(input.source))
        THEN MatchesAgainst(LikeHead(ident(flavor, convertCase, "name")),
                            IF input.flags = "i" /\ flavor = "mysql"
                            THEN toLowerCase(LikePatternOf(input.source))
                            ELSE LikePatternOf(input.source))
        ELSE /\ Ok(output)
             /\ StartsWith(output.chunks[1], NativeHead(ident(flavor, convertCase, "name")))

\* a literal % at the end of an open source is followed by the wildcard, and
\* the pattern is lowercased for mysql
C25_Witness ==
    /\ op = "expr"
    /\ input.source = "B%"
    /\ input.flags = "i"
    /\ ~input.inVar
    /\ flavor = "mysql"
    /\ toString(output) = "LOWER(" \o ident(flavor, convertCase, "name") \o ") LIKE '%b\\\\%%'"

(***************************************************************************)
(* Claims about the caller's values.                                       *)
(***************************************************************************)
RECURSIVE HasOperatorForm(_)

\* an array stands somewhere in e as an expression
HasOperatorForm(e) ==
    \/ e.k = "arr"
    \/ e.k = "obj" /\ \E i \in 1..Len(e.vals) : HasOperatorForm(e.vals[i])

\* C26: compiling leaves the caller's where-expression as it was: the two
\* statements built from it have the same text and the same parameters.
C26_SameStatementTwice ==
    op = "again" =>
        /\ Ok(output[1])
        /\ Ok(output[2])
        /\ toString(output[2]) = toString(output[1])
        /\ output[2].params = output[1].params

\* the same, for the where-expressions that hold no array
C26_SameStatementTwiceNoArray ==
    (op = "again" /\ ~HasOperatorForm(input.where)) => C26_SameStatementTwice

\* the first statement is built from every where-expression
C26_FirstStatementBuilt ==
    op = "first" => Ok(output[1])

(***************************************************************************)
(* Claims about names written without escaping.                            *)
(***************************************************************************)
LettersAndSpaces(name) == \A c \in Chars(name) : IsLetter(c) \/ c = " "

\* the name as keyword() receives it: a function name is in upper case, and
\* an empty direction is not written at all
GuardedName ==
    IF input.position = "FUNCTION" THEN toUpperCase(input.name) ELSE input.name

NameIsWritten == op \in {"expr", "order"} /\ ~(input.position = "ORDER" /\ input.name = "")

\* C27: a name written without escaping is made of ASCII letters and spaces
\* only; with any other character anywhere in it the compilation fails with
\* the keyword error.
C27_KeywordsAreLettersAndSpaces ==
    NameIsWritten =>
        IF GuardedName # "" /\ LettersAndSpaces(GuardedName)
        THEN Ok(output) /\ Contains(toString(output), GuardedName)
        ELSE output.err = Error("Keyword expected here, got \"" \o GuardedName \o "\" instead")

\* the same, for the first character of the name alone
C27_FirstCharacterChecked ==
    NameIsWritten =>
        IF GuardedName # "" /\ LettersAndSpaces(Char(GuardedName, 1))
        THEN Ok(output) /\ Contains(toString(output), GuardedName)
        ELSE output.err = Error("Keyword expected here, got \"" \o GuardedName \o "\" instead")

(***************************************************************************)
(* Claims about LIMIT and OFFSET.                                          *)
(***************************************************************************)
\* the statement has the clause for option v when v is one of the numbers
NumberWritten(v, clause, numbers(_)) ==
    (v.k = "num" /\ numbers(v.v)) =>
        /\ Ok(output)
        /\ Contains(toString(output), clause \o ToString(v.v))

AnyNumber(n) == TRUE

NonZero(n) == n # 0

\* C28: select writes LIMIT n whenever limit is a number n and OFFSET n
\* whenever offset is a number n, 0 included.
C28_LimitAndOffsetOfAnyNumber ==
    IsSelect =>
        /\ NumberWritten(input.options.limit, " LIMIT ", AnyNumber)
        /\ NumberWritten(input.options.offset, " OFFSET ", AnyNumber)

\* the same for the numbers other than 0
C28_LimitAndOffsetOfNonZero ==
    IsSelect =>
        /\ NumberWritten(input.options.limit, " LIMIT ", NonZero)
        /\ NumberWritten(input.options.offset, " OFFSET ", NonZero)

(***************************************************************************)
(* Claims about the placeholders of the two dialects.                      *)
(***************************************************************************)
\* buffer p writes its parameters as the dialect does: in mysql the text has
\* no $n and a ? for every parameter, in postgres a $n for every parameter
PlaceholdersOfDialect(p) ==
    IF p.sql.flavor = "mysql"
    THEN /\ MarksOf(toString(p), "mysql", "$") = <<>>
         /\ Len(MarksOf(toString(p), "mysql", "?")) >= Len(p.params)
    ELSE /\ Len(MarksOf(toString(p), "postgres", "$")) = Len(p.params)
         /\ \A i \in 1..Len(p.params) : MarksOf(toString(p), "postgres", "$")[i] >= 1

\* C29: the text of every Query has the placeholders of its dialect, ? and
\* never $n in mysql, $n in postgres: here for the tagged-template form, with
\* and without values(), and for its explain.
C29_RawPlaceholdersOfDialect ==
    op \in {"raw", "explain"} => PlaceholdersOfDialect(output.parts)

\* the same in postgres alone
C29_RawPlaceholdersIndexed ==
    (op \in {"raw", "explain"} /\ flavor = "postgres") => PlaceholdersOfDialect(output.parts)

\* the same for the statements of the four builders
C29_BuiltPlaceholdersOfDialect ==
    (op = "built" /\ Ok(output)) => PlaceholdersOfDialect(output)

\* the same for the statements of the builders and their explain, as Query
C29_QueryPlaceholdersOfDialect ==
    (op = "built" /\ output.k = "query") => PlaceholdersOfDialect(output.parts)

(***************************************************************************)
(* Claims about the shape of the buffer.                                   *)
(***************************************************************************)
\* one chunk more than parameters, and the last chunk is a string
Balanced(p) ==
    /\ Len(p.chunks) = Len(p.params) + 1
    /\ p.chunks[Len(p.chunks)] \in STRING

\* C30: the buffer of every statement a builder makes, whatever the builder
\* appended to it and whether or not the compilation failed, and the buffer
\* that explain makes from it, has one chunk more than it has parameters, and
\* its last chunk is a string.
C30_ChunksOneMoreThanParams ==
    op \in {"built", "explained"} => Balanced(output)

\* an upsert of two rows with a parameter in the conflict rule, explained
C30_Witness ==
    /\ op = "explained"
    /\ input.kind = "insert"
    /\ Len(output.params) >= 3
    /\ Len(output.chunks) = Len(output.params) + 1
    /\ StartsWith(output.chunks[1], "EXPLAIN")

\* the same for the Query of SpecExec and of the tagged template
C30_QueryChunksOneMoreThanParams ==
    (op \in {"built", "raw", "explain"} /\ output.k = "query") => Balanced(output.parts)

(***************************************************************************)
(* Claims about exec() and the methods of a Query.                         *)
(***************************************************************************)
\* C5: building a statement calls nothing on the collaborator; every trigger
\* on the Query is one call of query() on the pool, with the text and the
\* parameters of the Query, however many triggers came before.
C5_OneInvocationPerTrigger ==
    /\ op = "none" => dbLog = <<>>
    /\ (op = "built" /\ calls = <<>>) => dbLog = <<>>
    /\ Len(dbLog) = Len(calls)
    /\ \A i \in 1..Len(dbLog) :
          dbLog[i] = [on |-> "pool", method |-> "query", via |-> "sql",
                      text |-> toString(output.parts),
                      params |-> Arr(output.parts.params)]

C5_Witness ==
    /\ op = "built"
    /\ Len(calls) = MaxTriggers
    /\ Len(dbLog) = MaxTriggers
    /\ calls[1].out.state = "fulfilled"
    /\ calls[2].db = "called"

\* C6: once the collaborator has answered a call with an error, the promise
\* of exec is rejected with that error.
C6_CollaboratorErrorRejectsExec ==
    \A i \in 1..Len(calls) :
        calls[i].db = "error" => calls[i].exec = Rejected(calls[i].error)

(***************************************************************************)
(* Claims about begin().                                                   *)
(***************************************************************************)
\* the texts that reached collaborator db through query(), in order
QueryTexts(db) ==
    LET sent == SelectSeq(dbLog, LAMBDA e : e.method = "query" /\ e.on = db)
    IN  [i \in 1..Len(sent) |-> sent[i].text]

\* the texts of the statements that the callback issued through handle h
CallbackTexts(h) ==
    LET issued == SelectSeq(calls, LAMBDA c : c.via = h
                                              /\ c.text \notin {"BEGIN", "COMMIT", "ROLLBACK"})
    IN  [i \in 1..Len(issued) |-> issued[i].text]

\* begin is over: it has settled, or it waits on a promise that never settles
BeginOver == pc \in {"done", "hung"}

\* C2: when the callback has thrown or a statement of it has failed, begin
\* ends with a ROLLBACK sent on the connection and rejects with that failure.
C2_FailureRollsBackAndRejectsWithIt ==
    (tx.failure # Null /\ BeginOver) =>
        /\ \E i \in 1..Len(QueryTexts("conn")) : QueryTexts("conn")[i] = "ROLLBACK"
        /\ outcome = Rejected(tx.failure)

\* C3: when begin has settled after acquiring the connection, the connection
\* was released exactly once.
C3_ReleasedExactlyOnce ==
    (tx.acquired /\ pc = "done") => released = 1

\* what the connection receives when the callback returns
CommittedTexts == <<"BEGIN">> \o CallbackTexts("tx") \o <<"COMMIT">>

\* every statement of the scoped handle went to the connection
ScopedOnConnection ==
    \A i \in 1..Len(dbLog) :
        (dbLog[i].method = "query" /\ dbLog[i].via = "tx") => dbLog[i].on = "conn"

\* the COMMIT of begin has been sent
CommitSent == tx.returned /\ pc \in {"catch", "finally", "hung", "done"}

\* C4 as stated: after the callback has returned and COMMIT was sent, the
\* connection has received BEGIN, the statements of the scoped handle, one
\* COMMIT and nothing else, and no statement of the scoped handle went to
\* the pool.
C4_CommitOrderNoRollback ==
    /\ CommitSent => QueryTexts("conn") = CommittedTexts
    /\ ScopedOnConnection

\* C4, amended: after the callback has returned and COMMIT was sent, the
\* connection has received BEGIN, the statements of the scoped handle and one
\* COMMIT, in this order; a ROLLBACK follows only a COMMIT that was rejected,
\* and nothing else follows; no statement of the scoped handle went to the
\* pool.
C4_CommitOrderRollbackOnlyAfterRejectedCommit ==
    /\ CommitSent =>
          \/ QueryTexts("conn") = CommittedTexts
          \/ /\ QueryTexts("conn") = CommittedTexts \o <<"ROLLBACK">>
             /\ \E i \in 1..Len(calls) :
                   calls[i].text = "COMMIT" /\ calls[i].exec.state = "rejected"
    /\ ScopedOnConnection

C4_Witness ==
    /\ pc = "done"
    /\ tx.returned
    /\ Len(CallbackTexts("tx")) = 1
    /\ Len(CallbackTexts("sql")) = 1
    /\ QueryTexts("conn") = CommittedTexts
    /\ Len(QueryTexts("pool")) = 1

====
